---- MODULE Spec2Model ----
(***************************************************************************)
(* PrivaNote: the analysis service of src/utils/ai_analysis.py             *)
(* (AIAnalysisService): provider availability, the dispatch of             *)
(* analyze_meeting over the cloud backend, the two local servers and the   *)
(* keyword fallback, and the keyword fallback itself; the meeting store of *)
(* src/utils/storage.py (StorageService); and the upload pipeline of       *)
(* src/app.py (process_meeting) with the temporary files it writes.        *)
(*                                                                         *)
(* Text is a sequence of one-character strings, so that split, strip,      *)
(* lower and the substring test are computed as Python computes them.      *)
(* Model names and provider labels are TLA+ strings (built with \o).       *)
(* A confidence is an integer number of hundredths: 0.3 is 30, 1.0 is 100. *)
(***************************************************************************)
EXTENDS Integers, Sequences, FiniteSets, TLC

VARIABLES
    provider,             \* self.provider
    model_name,           \* self.model_name
    lm_studio_config,     \* self.lm_studio_config (the host:port it names)
    openai_client,        \* self.openai_client is not None
    ollama_available,     \* self.ollama_available
    lm_studio_client,     \* self.lm_studio_client is not None
    lm_studio_available,  \* self.lm_studio_available
    ollama_server,        \* environment: the Ollama package and daemon
    lm_studio_server,     \* environment: the LM Studio server
    transcript,           \* the transcript handed to the most recent analysis
    meetings,             \* st.session_state.meetings
    clock,                \* how many times datetime.now() has been read
    files,                \* the temporary files on disk
    AUDIO_AVAILABLE,      \* audio_recorder.AUDIO_AVAILABLE: sounddevice and numpy were imported
    audio_recorder,       \* st.session_state.audio_recorder: recording, audio_data, stream, temp_file
    recording_file,       \* st.session_state.recording_file
    last                  \* the most recent call: its name, what it returned, the backend calls it made

vars == <<provider, model_name, lm_studio_config, openai_client, ollama_available,
          lm_studio_client, lm_studio_available, ollama_server, lm_studio_server,
          transcript, meetings, clock, files, AUDIO_AVAILABLE, audio_recorder,
          recording_file, last>>

service_vars == <<provider, model_name, lm_studio_config, openai_client, ollama_available,
                  lm_studio_client, lm_studio_available>>

env_vars == <<ollama_server, lm_studio_server>>

app_vars == <<meetings, clock, files>>

recorder_vars == <<AUDIO_AVAILABLE, audio_recorder, recording_file>>

(***************************************************************************)
(* Python's str operations, on sequences of characters.                    *)
(***************************************************************************)

\* str.lower() of one character (ASCII letters).
LowerChar(c) ==
    CASE c = "A" -> "a" [] c = "B" -> "b" [] c = "C" -> "c" [] c = "D" -> "d"
      [] c = "E" -> "e" [] c = "F" -> "f" [] c = "G" -> "g" [] c = "H" -> "h"
      [] c = "I" -> "i" [] c = "J" -> "j" [] c = "K" -> "k" [] c = "L" -> "l"
      [] c = "M" -> "m" [] c = "N" -> "n" [] c = "O" -> "o" [] c = "P" -> "p"
      [] c = "Q" -> "q" [] c = "R" -> "r" [] c = "S" -> "s" [] c = "T" -> "t"
      [] c = "U" -> "u" [] c = "V" -> "v" [] c = "W" -> "w" [] c = "X" -> "x"
      [] c = "Y" -> "y" [] c = "Z" -> "z" [] OTHER -> c

\* str.lower()
Lower(s) == [i \in 1..Len(s) |-> LowerChar(s[i])]

\* The characters str.strip() and str.split() treat as whitespace.
IsSpace(c) == c \in {" ", "\t", "\n", "\r"}

\* str.lstrip()
RECURSIVE LStrip(_)
LStrip(s) == IF s # <<>> /\ IsSpace(Head(s)) THEN LStrip(Tail(s)) ELSE s

\* str.rstrip()
RECURSIVE RStrip(_)
RStrip(s) ==
    IF s # <<>> /\ IsSpace(s[Len(s)]) THEN RStrip(SubSeq(s, 1, Len(s) - 1)) ELSE s

\* str.strip()
Strip(s) == RStrip(LStrip(s))

\* s.split(sep) for a one-character separator: always a non-empty list, empty
\* pieces kept.
RECURSIVE SplitOn(_, _, _, _)
SplitOn(s, sep, done, cur) ==
    IF s = <<>> THEN Append(done, cur)
    ELSE IF Head(s) = sep THEN SplitOn(Tail(s), sep, Append(done, cur), <<>>)
    ELSE SplitOn(Tail(s), sep, done, Append(cur, Head(s)))

Split(s, sep) == SplitOn(s, sep, <<>>, <<>>)

\* len(s.split()): the number of maximal runs of non-whitespace characters.
WordCount(s) ==
    Cardinality({i \in 1..Len(s) :
        /\ ~IsSpace(s[i])
        /\ (i = 1 \/ IsSpace(s[i - 1]))})

\* k in s (substring)
Contains(s, k) ==
    \E i \in 0..(Len(s) - Len(k)) : SubSeq(s, i + 1, i + Len(k)) = k

Digits == <<"0", "1", "2", "3", "4", "5", "6", "7", "8", "9">>

\* str(n) for a natural number n.
RECURSIVE Str(_)
Str(n) == IF n < 10 THEN <<Digits[n + 1]>> ELSE Str(n \div 10) \o <<Digits[(n % 10) + 1]>>

\* xs[:n]
Take(xs, n) == SubSeq(xs, 1, IF Len(xs) < n THEN Len(xs) ELSE n)

(***************************************************************************)
(* The keyword fallback: AIAnalysisService._fallback_analysis              *)
(***************************************************************************)

action_keywords ==
    << <<"t", "o", "d", "o">>,
       <<"a", "c", "t", "i", "o", "n">>,
       <<"t", "a", "s", "k">>,
       <<"w", "i", "l", "l", " ", "d", "o">>,
       <<"s", "h", "o", "u", "l", "d">>,
       <<"n", "e", "e", "d", " ", "t", "o">>,
       <<"f", "o", "l", "l", "o", "w", " ", "u", "p">> >>

decision_keywords ==
    << <<"d", "e", "c", "i", "d", "e", "d">>,
       <<"a", "g", "r", "e", "e", "d">>,
       <<"c", "o", "n", "c", "l", "u", "s", "i", "o", "n">>,
       <<"r", "e", "s", "o", "l", "v", "e", "d">>,
       <<"d", "e", "t", "e", "r", "m", "i", "n", "e", "d">> >>

\* The keyword test without .lower(): a deviation C10 does not survive.
AnyKeywordIn_CaseSensitive(sentence, keywords) ==
    \E j \in 1..Len(keywords) : Contains(sentence, keywords[j])

\* any(keyword in sentence.lower() for keyword in keywords)
AnyKeywordIn(sentence, keywords) ==
    \E j \in 1..Len(keywords) : Contains(Lower(sentence), keywords[j])

\* for sentence in sentences: if any(...): items.append(sentence.strip())
RECURSIVE DetectSentences(_, _)
DetectSentences(sentences, keywords) ==
    IF sentences = <<>> THEN <<>>
    ELSE (IF AnyKeywordIn(Head(sentences), keywords)
          THEN <<Strip(Head(sentences))>> ELSE <<>>)
         \o DetectSentences(Tail(sentences), keywords)

\* The number of items the fallback keeps of each list ([:5]).
ItemLimit == 5

\* ai_confidence of the fallback: 0.3
FallbackConfidence == 30

\* summary = f"Meeting transcript contains {word_count} words. " and, with more
\* than two pieces, the first and the second-to-last piece.
FallbackSummary(t) ==
    LET sentences == Split(t, ".")
        word_count == WordCount(Lower(t))
    IN  <<"M", "e", "e", "t", "i", "n", "g", " ", "t", "r", "a", "n", "s", "c", "r",
          "i", "p", "t", " ", "c", "o", "n", "t", "a", "i", "n", "s", " ">>
        \o Str(word_count)
        \o <<" ", "w", "o", "r", "d", "s", ".", " ">>
        \o (IF Len(sentences) > 2
            THEN Strip(sentences[1]) \o <<".", " ">>
                 \o Strip(sentences[Len(sentences) - 1]) \o <<".">>
            ELSE <<>>)

\* The dict _fallback_analysis returns: it has no 'provider' key.
_fallback_analysis(t) ==
    LET sentences == Split(t, ".")
    IN  [summary          |-> FallbackSummary(t),
         action_items     |-> Take(DetectSentences(sentences, action_keywords), ItemLimit),
         key_decisions    |-> Take(DetectSentences(sentences, decision_keywords), ItemLimit),
         topics_discussed |-> <<>>,
         participants     |-> <<>>,
         next_steps       |-> <<>>,
         ai_confidence    |-> FallbackConfidence]

(***************************************************************************)
(* Python values and call outcomes.                                        *)
(*   a value:   [type |-> "dict" | "list" | "none", val |-> ...]           *)
(*   a call:    [exc |-> "" (it returned) | the exception's class,         *)
(*               val |-> the value returned, calls |-> the backend         *)
(*               requests made, in order]                                  *)
(***************************************************************************)

PyDict(d) == [type |-> "dict", val |-> d]

PyList == [type |-> "list", val |-> <<>>]

PyNone == [type |-> "none", val |-> <<>>]

Ok(v, calls) == [exc |-> "", val |-> v, calls |-> calls]

Raise(e, calls) == [exc |-> e, val |-> PyNone, calls |-> calls]

\* d.get(k, default)
Get(d, k, default) == IF k \in DOMAIN d THEN d[k] ELSE default

\* AudioRecorder.__init__: not recording, no chunk of audio, no stream, no
\* temporary file. audio_data is the number of chunks; stream is "None" or the
\* state of the sounddevice.InputStream the attribute holds.
NewRecorder == [recording |-> FALSE, audio_data |-> 0, stream |-> "None", temp_file |-> PyNone]

\* One request to a backend.
Request(backend, api, model) == [backend |-> backend, api |-> api, model |-> model]

(***************************************************************************)
(* The environment: what the servers answer.                               *)
(***************************************************************************)

\* Model names: the three defaults of _get_default_model and one more model a
\* local server may have loaded.
ModelNames == {"gpt-4o", "gemma3", "google/gemma-3n-e4b", "mistral-7b"}

\* An absent (None, or empty) argument.
None == ""

Providers == {"openai", "ollama", "lm_studio", "fallback", "azure"}

DefaultConfig == "localhost:1234"

Configs == {DefaultConfig, "10.0.0.5:8080"}

\* The Ollama package (OLLAMA_AVAILABLE) and its daemon.
OllamaServerStates ==
    {[installed |-> FALSE, up |-> FALSE, models |-> <<>>],
     [installed |-> TRUE,  up |-> FALSE, models |-> <<>>],
     [installed |-> TRUE,  up |-> TRUE,  models |-> <<>>],
     [installed |-> TRUE,  up |-> TRUE,  models |-> <<"gemma3">>]}

\* The LM Studio server and the models it has loaded, in the order it lists them.
LMStudioServerStates ==
    {[up |-> FALSE, models |-> <<>>],
     [up |-> TRUE,  models |-> <<>>],
     [up |-> TRUE,  models |-> <<"google/gemma-3n-e4b">>],
     [up |-> TRUE,  models |-> <<"mistral-7b", "google/gemma-3n-e4b">>]}

\* ollama.list(): the models, or an exception when the daemon is not running.
ollama_list ==
    IF ollama_server.up
    THEN Ok(PyList, <<Request("ollama", "list", None)>>) @@ [models |-> ollama_server.models]
    ELSE Raise("Exception", <<Request("ollama", "list", None)>>) @@ [models |-> <<>>]

\* self.lm_studio_client.models.list(): the models, or an exception when the
\* server does not answer.
lm_studio_models_list ==
    IF lm_studio_server.up
    THEN Ok(PyList, <<Request("lm_studio", "models.list", None)>>)
         @@ [models |-> lm_studio_server.models]
    ELSE Raise("Exception", <<Request("lm_studio", "models.list", None)>>)
         @@ [models |-> <<>>]

\* x in xs, for a list
InList(x, xs) == \E i \in 1..Len(xs) : xs[i] = x

(***************************************************************************)
(* Construction and provider selection.                                    *)
(***************************************************************************)

\* _get_default_model, for self.provider = p
_get_default_model(p) ==
    IF p = "ollama" THEN "gemma3"
    ELSE IF p = "lm_studio" THEN "google/gemma-3n-e4b"
    ELSE "gpt-4o"

\* _check_ollama_availability
_check_ollama_availability ==
    IF ~ollama_server.installed THEN FALSE
    ELSE ollama_list.exc = ""

\* _initialize_openai_client: a client exactly when OPENAI_API_KEY is set.
_initialize_openai_client(api_key) == api_key

\* _initialize_lm_studio_client: a client unless the OpenAI constructor raises.
_initialize_lm_studio_client(constructed) == constructed

\* _check_lm_studio_availability, for self.lm_studio_client = client and
\* self.model_name = name
_check_lm_studio_availability(client, name) ==
    IF ~client THEN FALSE
    ELSE LET models_response == lm_studio_models_list
             available_models == models_response.models
         IN  IF models_response.exc # "" THEN FALSE
             ELSE IF available_models = <<>> THEN FALSE
             ELSE IF ~InList(name, available_models)
                  THEN (IF available_models # <<>> THEN TRUE ELSE FALSE)
             ELSE TRUE

(***************************************************************************)
(* What a chat backend answers.                                            *)
(*   kind "raise":      the request raises (connection refused, HTTP 500,  *)
(*                      timeout, a response without choices)               *)
(*   kind "empty":      the message content is None or ''                  *)
(*   kind "text":       prose, no braces                                   *)
(*   kind "braces":     text with a {...} span that is not JSON            *)
(*   kind "json_list":  a JSON array (no braces in it)                     *)
(*   kind "json_dict":  the JSON object obj                                *)
(*   kind "prose_dict": prose around the JSON object obj                   *)
(***************************************************************************)

S1 == <<"S">>

\* A complete answer, with a confidence in [0, 1].
CompleteObject ==
    [summary |-> S1, action_items |-> <<<<"a">>>>, key_decisions |-> <<<<"d">>>>,
     topics_discussed |-> <<<<"t">>>>, participants |-> <<<<"p">>>>,
     next_steps |-> <<<<"n">>>>, confidence |-> 90]

\* The objects a backend sends: complete, with a confidence outside [0, 1],
\* and with keys missing.
BackendObjects ==
    {CompleteObject,
     [CompleteObject EXCEPT !.confidence = 150],
     [summary |-> S1, confidence |-> 0 - 10],
     [summary |-> S1]}

NoObject == <<>>

ChatOutcomes ==
    {[kind |-> k, obj |-> NoObject] : k \in {"raise", "empty", "text", "braces", "json_list"}}
    \cup {[kind |-> "json_dict", obj |-> o] : o \in BackendObjects}
    \cup {[kind |-> "prose_dict", obj |-> CompleteObject]}

\* json.loads(content)
json_loads(content, calls) ==
    IF content.kind = "json_dict" THEN Ok(PyDict(content.obj), calls)
    ELSE IF content.kind = "json_list" THEN Ok(PyList, calls)
    ELSE Raise("JSONDecodeError", calls)

\* re.search(r'\{.*\}', content, re.DOTALL): the span from the first { to the
\* last }, when there is one.
re_search_braces(content) ==
    IF content.kind \in {"json_dict", "prose_dict"}
    THEN [found |-> TRUE, group |-> [kind |-> "json_dict", obj |-> content.obj]]
    ELSE IF content.kind = "braces"
    THEN [found |-> TRUE, group |-> content]
    ELSE [found |-> FALSE, group |-> content]

\* The two handlers every _generate_* ends with:
\*   except json.JSONDecodeError: return self._fallback_analysis(transcript)
\*   except Exception:            return self._fallback_analysis(transcript)
GenerateHandlers(body, t) ==
    IF body.exc # "" THEN Ok(PyDict(_fallback_analysis(t)), body.calls) ELSE body

\* The content of a local server's answer: the braces span first, then the
\* whole text (lines 287-298 and 424-435).
ParseLocalContent(out, calls) ==
    IF out.kind # "empty"
    THEN LET json_match == re_search_braces(out)
         IN  IF json_match.found THEN json_loads(json_match.group, calls)
             ELSE json_loads(out, calls)
    ELSE Ok(PyDict(NoObject), calls)

\* _generate_openai_analysis(transcript), the request answering out
_generate_openai_analysis(t, out) ==
    LET calls == <<Request("openai", "chat.completions.create", "gpt-4o")>>
        body ==
            IF ~openai_client THEN Ok(PyDict(_fallback_analysis(t)), <<>>)
            ELSE IF out.kind = "raise" THEN Raise("Exception", calls)
            ELSE IF out.kind # "empty" THEN json_loads(out, calls)
            ELSE Ok(PyDict(NoObject), calls)
    IN  GenerateHandlers(body, t)

\* _generate_ollama_analysis(transcript), the request answering out
_generate_ollama_analysis(t, out) ==
    LET calls == <<Request("ollama", "chat", model_name)>>
        body ==
            IF out.kind = "raise" THEN Raise("Exception", calls)
            ELSE ParseLocalContent(out, calls)
    IN  GenerateHandlers(body, t)

\* The model _generate_lm_studio_analysis asks for: the configured one, or the
\* first one loaded when the configured one is not loaded. listing is what
\* models.list() answered.
model_to_use(listing) ==
    IF listing.exc # "" THEN model_name
    ELSE IF ~InList(model_name, listing.models) /\ listing.models # <<>>
         THEN listing.models[1]
    ELSE model_name

\* _generate_lm_studio_analysis(transcript), models.list() answering listing
\* and the request answering out
_generate_lm_studio_analysis(t, listing, out) ==
    LET calls == listing.calls
                 \o <<Request("lm_studio", "chat.completions.create", model_to_use(listing))>>
        body ==
            IF ~lm_studio_client THEN Ok(PyDict(_fallback_analysis(t)), <<>>)
            ELSE IF out.kind = "raise" THEN Raise("Exception", calls)
            ELSE ParseLocalContent(out, calls)
    IN  GenerateHandlers(body, t)

\* The dict the three _analyze_with_* build from analysis_result: .get on a
\* value that is not a dict raises AttributeError.
BuildResult(g, default_confidence, label) ==
    IF g.val.type # "dict" THEN Raise("AttributeError", g.calls)
    ELSE LET analysis_result == g.val.val
         IN  Ok(PyDict(
                 [summary          |-> Get(analysis_result, "summary", <<>>),
                  action_items     |-> Get(analysis_result, "action_items", <<>>),
                  key_decisions    |-> Get(analysis_result, "key_decisions", <<>>),
                  topics_discussed |-> Get(analysis_result, "topics_discussed", <<>>),
                  participants     |-> Get(analysis_result, "participants", <<>>),
                  next_steps       |-> Get(analysis_result, "next_steps", <<>>),
                  ai_confidence    |-> Get(analysis_result, "confidence", default_confidence),
                  provider         |-> label]),
               g.calls)

\* The handler, had it caught json.JSONDecodeError alone: a deviation C1 does
\* not survive.
AnalyzeHandler_JSONOnly(body, t) ==
    IF body.exc = "JSONDecodeError" THEN Ok(PyDict(_fallback_analysis(t)), body.calls)
    ELSE body

\* except Exception as e: ...; return self._fallback_analysis(transcript)
AnalyzeHandler(body, t) ==
    IF body.exc # "" THEN Ok(PyDict(_fallback_analysis(t)), body.calls) ELSE body

\* The default confidences: 0.85, 0.75 and 0.8
OpenAIConfidence == 85

OllamaConfidence == 75

LMStudioConfidence == 80

\* _analyze_with_openai
_analyze_with_openai(t, out) ==
    LET g == _generate_openai_analysis(t, out)
        body == IF g.exc # "" THEN g ELSE BuildResult(g, OpenAIConfidence, "OpenAI")
    IN  AnalyzeHandler(body, t)

\* _analyze_with_ollama
_analyze_with_ollama(t, out) ==
    LET g == _generate_ollama_analysis(t, out)
        body == IF g.exc # "" THEN g
                ELSE BuildResult(g, OllamaConfidence, "Local " \o model_name)
    IN  AnalyzeHandler(body, t)

\* _analyze_with_lm_studio
_analyze_with_lm_studio(t, listing, out) ==
    LET g == _generate_lm_studio_analysis(t, listing, out)
        body == IF g.exc # "" THEN g
                ELSE BuildResult(g, LMStudioConfidence, "LM Studio (" \o model_name \o ")")
    IN  AnalyzeHandler(body, t)

\* The dispatch on the provider id alone, the availability flags ignored: a
\* deviation C5 does not survive.
analyze_meeting_by_provider(t, listing, out) ==
    IF provider = "openai" THEN _analyze_with_openai(t, out)
    ELSE IF provider = "ollama" THEN _analyze_with_ollama(t, out)
    ELSE IF provider = "lm_studio" THEN _analyze_with_lm_studio(t, listing, out)
    ELSE Ok(PyDict(_fallback_analysis(t)), <<>>)

\* analyze_meeting(transcript)
analyze_meeting(t, listing, out) ==
    IF provider = "openai" /\ openai_client THEN _analyze_with_openai(t, out)
    ELSE IF provider = "ollama" /\ ollama_available THEN _analyze_with_ollama(t, out)
    ELSE IF provider = "lm_studio" /\ lm_studio_available
         THEN _analyze_with_lm_studio(t, listing, out)
    ELSE Ok(PyDict(_fallback_analysis(t)), <<>>)

(***************************************************************************)
(* get_available_providers                                                 *)
(***************************************************************************)

Descriptor(name, value, description, privacy, models) ==
    [name |-> name, value |-> value, description |-> description,
     privacy |-> privacy, models |-> models]

\* if self.openai_client: providers.append(...)
ListOpenAI ==
    IF openai_client
    THEN Ok(<<Descriptor("OpenAI (Cloud)", "openai", "High-quality analysis via OpenAI API",
                         "Transcript sent to OpenAI", <<"gpt-4o", "gpt-4o-mini">>)>>, <<>>)
    ELSE Ok(<<>>, <<>>)

\* if self.ollama_available: try: ... except Exception: pass
ListOllama ==
    IF ollama_available
    THEN LET models_response == ollama_list
             available_models == models_response.models
         IN  IF models_response.exc # "" THEN Ok(<<>>, models_response.calls)
             ELSE Ok(<<Descriptor("Local Gemma (Ollama)", "ollama",
                                  "Fully private local processing",
                                  "Data never leaves your device",
                                  IF available_models # <<>> THEN available_models
                                  ELSE <<"gemma3">>)>>,
                     models_response.calls)
    ELSE Ok(<<>>, <<>>)

\* if self.lm_studio_available: try: ... except Exception as e: (still listed)
ListLMStudio ==
    IF lm_studio_available
    THEN LET models_response == lm_studio_models_list
             available_models == models_response.models
         IN  IF models_response.exc = ""
             THEN Ok(<<Descriptor("LM Studio (" \o lm_studio_config \o ")", "lm_studio",
                                  "Local server with OpenAI-compatible API",
                                  "Data processed on local LM Studio server",
                                  IF available_models # <<>> THEN available_models
                                  ELSE <<"No models loaded">>)>>,
                     models_response.calls)
             ELSE Ok(<<Descriptor("LM Studio (" \o lm_studio_config \o ") - Connection Failed",
                                  "lm_studio",
                                  "Local server with OpenAI-compatible API",
                                  "Data processed on local LM Studio server",
                                  <<"Connection error: Connection error.">>)>>,
                     models_response.calls)
    ELSE Ok(<<>>, <<>>)

FallbackDescriptor ==
    Descriptor("Basic Analysis (No AI)", "fallback", "Simple keyword-based analysis",
               "Fully local", <<"pattern-matching">>)

\* The fallback descriptor added by the availability flags instead of by the
\* list built: a deviation C7 does not survive.
WithFallbackDescriptor_ByFlags(providers) ==
    IF ~(openai_client \/ ollama_available \/ lm_studio_available)
    THEN <<FallbackDescriptor>> ELSE providers

\* if not providers: providers.append(the fallback descriptor)
WithFallbackDescriptor(providers) ==
    IF providers = <<>> THEN <<FallbackDescriptor>> ELSE providers

\* get_available_providers()
get_available_providers ==
    LET providers == ListOpenAI.val \o ListOllama.val \o ListLMStudio.val
    IN  Ok(WithFallbackDescriptor(providers),
           ListOpenAI.calls \o ListOllama.calls \o ListLMStudio.calls)

(***************************************************************************)
(* The service as a state machine.                                         *)
(***************************************************************************)

\* The arguments the application passes: a model name or None, a
\* lm_studio_config or None.
ModelArgs == {None, "mistral-7b"}

ConfigArgs == {None, "10.0.0.5:8080"}

\* "We decided to launch Friday. John will send the report."
LaunchTranscript ==
    <<"W", "e", " ", "d", "e", "c", "i", "d", "e", "d", " ", "t", "o", " ", "l", "a",
      "u", "n", "c", "h", " ", "F", "r", "i", "d", "a", "y", ".", " ", "J", "o", "h",
      "n", " ", "w", "i", "l", "l", " ", "s", "e", "n", "d", " ", "t", "h", "e", " ",
      "r", "e", "p", "o", "r", "t", ".">>

\* The transcripts handed to analyze_meeting.
ServiceTranscripts == {<<>>, LaunchTranscript}

\* No backend answered (no request was made).
NoAnswer == [kind |-> "none", obj |-> NoObject]

\* The record of a call: its name, the answer the chat backend gave it, the
\* exception it raised ("" when it returned), its value, the requests it made.
Call(op, answer, outcome) ==
    [op |-> op, answer |-> answer, exc |-> outcome.exc, val |-> outcome.val,
     calls |-> outcome.calls]

\* __init__(provider, model_name, lm_studio_config), in every environment
Init ==
    \E p \in Providers, m \in ModelArgs, cfg \in ConfigArgs,
       api_key \in BOOLEAN, constructed \in BOOLEAN :
        /\ ollama_server \in OllamaServerStates
        /\ lm_studio_server \in LMStudioServerStates
        /\ provider = p
        /\ model_name = (IF m # None THEN m ELSE _get_default_model(p))
        /\ lm_studio_config = (IF cfg # None THEN cfg ELSE DefaultConfig)
        /\ openai_client = _initialize_openai_client(api_key)
        /\ ollama_available = _check_ollama_availability
        /\ lm_studio_client = _initialize_lm_studio_client(constructed)
        /\ lm_studio_available = _check_lm_studio_availability(lm_studio_client, model_name)
        /\ transcript = <<>>
        /\ meetings = <<>>
        /\ clock = 0
        /\ files = {}
        /\ AUDIO_AVAILABLE = TRUE
        /\ audio_recorder = NewRecorder
        /\ recording_file = PyNone
        /\ last = Call("__init__", NoAnswer, Ok(PyNone, <<>>))

\* set_provider(provider, model_name, lm_studio_config)
set_provider(p, m, cfg, constructed) ==
    /\ provider' = p
    /\ model_name' = (IF m # None THEN m ELSE _get_default_model(p))
    /\ IF cfg # None
       THEN /\ lm_studio_config' = cfg
            /\ lm_studio_client' = _initialize_lm_studio_client(constructed)
            /\ lm_studio_available' =
                   _check_lm_studio_availability(lm_studio_client', model_name')
       ELSE UNCHANGED <<lm_studio_config, lm_studio_client, lm_studio_available>>
    /\ UNCHANGED <<openai_client, ollama_available>>

SetProvider ==
    \E p \in Providers, m \in ModelArgs, cfg \in ConfigArgs, constructed \in BOOLEAN :
        /\ (cfg = None => constructed)
        /\ set_provider(p, m, cfg, constructed)
        /\ transcript' = <<>>
        /\ last' = Call("set_provider", NoAnswer, Ok(PyNone, <<>>))
        /\ UNCHANGED <<env_vars, app_vars, recorder_vars>>

GetAvailableProviders ==
    /\ last' = Call("get_available_providers", NoAnswer, get_available_providers)
    /\ transcript' = <<>>
    /\ UNCHANGED <<service_vars, env_vars, app_vars, recorder_vars>>

\* What models.list() may answer during an analysis: what the server has, or
\* a failure of that one request.
ListingOutcomes ==
    {lm_studio_models_list,
     Raise("Exception", <<Request("lm_studio", "models.list", None)>>) @@ [models |-> <<>>]}

\* Which backend analyze_meeting dispatches to.
Dispatch ==
    IF provider = "openai" /\ openai_client THEN "openai"
    ELSE IF provider = "ollama" /\ ollama_available THEN "ollama"
    ELSE IF provider = "lm_studio" /\ lm_studio_available THEN "lm_studio"
    ELSE "fallback"

\* The answers the selected backend can give in this environment: a server
\* that is down only fails, and with no backend selected nothing answers.
PossibleOutcomes ==
    IF Dispatch = "fallback" THEN {NoAnswer}
    ELSE IF Dispatch = "ollama" /\ ~ollama_server.up THEN {[kind |-> "raise", obj |-> NoObject]}
    ELSE IF Dispatch = "lm_studio" /\ ~lm_studio_server.up
         THEN {[kind |-> "raise", obj |-> NoObject]}
    ELSE ChatOutcomes

AnalyzeMeeting ==
    \E t \in ServiceTranscripts, out \in PossibleOutcomes,
       listing \in (IF Dispatch = "lm_studio" THEN ListingOutcomes ELSE {lm_studio_models_list}) :
        /\ last' = Call("analyze_meeting", out, analyze_meeting(t, listing, out))
        /\ transcript' = t
        /\ UNCHANGED <<service_vars, env_vars, app_vars, recorder_vars>>

\* The Ollama daemon starts, stops, loads or unloads models.
OllamaServerChanges ==
    \E s \in OllamaServerStates :
        /\ s # ollama_server
        /\ s.installed = ollama_server.installed
        /\ ollama_server' = s
        /\ transcript' = <<>>
        /\ last' = Call("environment", NoAnswer, Ok(PyNone, <<>>))
        /\ UNCHANGED <<service_vars, lm_studio_server, app_vars, recorder_vars>>

\* The LM Studio server starts, stops, loads or unloads models.
LMStudioServerChanges ==
    \E s \in LMStudioServerStates :
        /\ s # lm_studio_server
        /\ lm_studio_server' = s
        /\ transcript' = <<>>
        /\ last' = Call("environment", NoAnswer, Ok(PyNone, <<>>))
        /\ UNCHANGED <<service_vars, ollama_server, app_vars, recorder_vars>>

Next ==
    \/ SetProvider
    \/ GetAvailableProviders
    \/ AnalyzeMeeting
    \/ OllamaServerChanges
    \/ LMStudioServerChanges

Spec == Init /\ [][Next]_vars

(***************************************************************************)
(* The keyword fallback alone, over transcripts built from fragments.      *)
(***************************************************************************)

\* The most fragments a transcript is built from.
MaxFragments == 6

\* "Todo.", " We AGREED.", " ok." and " task resolved" (no period after it)
Fragments ==
    {<<"T", "o", "d", "o", ".">>,
     <<" ", "W", "e", " ", "A", "G", "R", "E", "E", "D", ".">>,
     <<" ", "o", "k", ".">>,
     <<" ", "t", "a", "s", "k", " ", "r", "e", "s", "o", "l", "v", "e", "d">>}

RECURSIVE Concat(_)
Concat(pieces) == IF pieces = <<>> THEN <<>> ELSE Head(pieces) \o Concat(Tail(pieces))

FragmentTranscripts ==
    {Concat(fs) : fs \in UNION {[1..n -> Fragments] : n \in 0..MaxFragments}}

\* The keywords as the specification lists them.
SpecActionKeywords ==
    {<<"t", "o", "d", "o">>, <<"a", "c", "t", "i", "o", "n">>, <<"t", "a", "s", "k">>,
     <<"w", "i", "l", "l", " ", "d", "o">>, <<"s", "h", "o", "u", "l", "d">>,
     <<"n", "e", "e", "d", " ", "t", "o">>, <<"f", "o", "l", "l", "o", "w", " ", "u", "p">>}

SpecDecisionKeywords ==
    {<<"d", "e", "c", "i", "d", "e", "d">>, <<"a", "g", "r", "e", "e", "d">>,
     <<"c", "o", "n", "c", "l", "u", "s", "i", "o", "n">>,
     <<"r", "e", "s", "o", "l", "v", "e", "d">>,
     <<"d", "e", "t", "e", "r", "m", "i", "n", "e", "d">>}

\* One sentence per keyword: "We <keyword> it. Fine."
KeywordTranscripts ==
    {<<"W", "e", " ">> \o k \o <<" ", "i", "t", ".", " ", "F", "i", "n", "e", ".">> :
        k \in SpecActionKeywords \cup SpecDecisionKeywords}

FallbackTranscripts == FragmentTranscripts \cup KeywordTranscripts \cup {LaunchTranscript}

InitFallback ==
    /\ transcript \in FallbackTranscripts
    /\ provider = "fallback"
    /\ model_name = _get_default_model("fallback")
    /\ lm_studio_config = DefaultConfig
    /\ openai_client = FALSE
    /\ ollama_available = FALSE
    /\ lm_studio_client = FALSE
    /\ lm_studio_available = FALSE
    /\ ollama_server = [installed |-> FALSE, up |-> FALSE, models |-> <<>>]
    /\ lm_studio_server = [up |-> FALSE, models |-> <<>>]
    /\ meetings = <<>>
    /\ clock = 0
    /\ files = {}
    /\ AUDIO_AVAILABLE = TRUE
    /\ audio_recorder = NewRecorder
    /\ recording_file = PyNone
    /\ last = Call("input", NoAnswer, Ok(PyNone, <<>>))

\* self._fallback_analysis(transcript)
FallbackAnalysis ==
    /\ last.op = "input"
    /\ last' = Call("_fallback_analysis", NoAnswer, Ok(PyDict(_fallback_analysis(transcript)), <<>>))
    /\ UNCHANGED <<transcript, service_vars, env_vars, app_vars, recorder_vars>>

NextFallback == FallbackAnalysis

SpecFallback == InitFallback /\ [][NextFallback]_vars

(***************************************************************************)
(* The meeting store: StorageService of src/utils/storage.py.              *)
(* A meeting is a dict: a function from the keys it has to Python values.  *)
(* A stored dict is the object that was handed in, and every dict handed   *)
(* to the store is a new object, as the ones process_meeting builds.       *)
(***************************************************************************)

PyStr(s) == [type |-> "str", val |-> s]

PyBool(b) == [type |-> "bool", val |-> b]

PyInt(n) == [type |-> "int", val |-> n]

PyListOf(items) == [type |-> "list", val |-> items]

\* d[k] = v
SetItem(d, k, v) == [x \in DOMAIN d \cup {k} |-> IF x = k THEN v ELSE d[x]]

Range(xs) == {xs[i] : i \in 1..Len(xs)}

\* sep.join(items)
RECURSIVE Join(_, _)
Join(items, sep) ==
    IF items = <<>> THEN <<>>
    ELSE IF Len(items) = 1 THEN items[1]
    ELSE items[1] \o sep \o Join(Tail(items), sep)

\* datetime.now().isoformat() at the n-th reading of the clock
isoformat(n) == PyStr(Str(n))

\* "1.0"
StorageVersion == <<"1", ".", "0">>

RequiredFields == {"title", "transcript", "analysis"}

\* What a store operation does: the list afterwards, what the call returned
\* or raised, and how many times it read the clock.
StoreOutcome(ms, out, reads) == [meetings |-> ms, out |-> out, reads |-> reads]

\* save_meeting(meeting_data) with the clock read now times so far. The dict
\* is stamped in place and appended before meeting_data['id'] is looked up:
\* without an id the KeyError is re-raised as Exception after the append.
save_meeting(ms, meeting_data, now) ==
    IF ~(RequiredFields \subseteq DOMAIN meeting_data)
    THEN StoreOutcome(ms, Raise("Exception", <<>>), 0)
    ELSE LET stamped == SetItem(SetItem(meeting_data, "saved_at", isoformat(now + 1)),
                                "version", PyStr(StorageVersion))
         IN  IF "id" \in DOMAIN stamped
             THEN StoreOutcome(Append(ms, stamped), Ok(stamped.id, <<>>), 1)
             ELSE StoreOutcome(Append(ms, stamped), Raise("Exception", <<>>), 1)

\* The index of the first meeting whose .get('id') is meeting_id, 0 if none.
FirstWithId(ms, meeting_id) ==
    LET hits == {i \in 1..Len(ms) : Get(ms[i], "id", PyNone) = meeting_id}
    IN  IF hits = {} THEN 0 ELSE CHOOSE i \in hits : \A j \in hits : i <= j

\* get_meeting(meeting_id): the stored dict itself, or None
get_meeting(ms, meeting_id) ==
    LET i == FirstWithId(ms, meeting_id)
    IN  IF i = 0 THEN PyNone ELSE PyDict(ms[i])

\* get_all_meetings(): a new list of the stored dicts themselves
get_all_meetings(ms) == PyListOf(ms)

\* update_meeting that takes created_at from the new data
update_meeting_OwnCreatedAt(ms, meeting_id, updated_data, now) ==
    LET i == FirstWithId(ms, meeting_id)
    IN  IF i = 0 THEN StoreOutcome(ms, Ok(PyBool(FALSE), <<>>), 0)
        ELSE StoreOutcome([ms EXCEPT ![i] = SetItem(updated_data, "updated_at", isoformat(now + 1))],
                          Ok(PyBool(TRUE), <<>>), 1)

\* update_meeting(meeting_id, updated_data)
update_meeting(ms, meeting_id, updated_data, now) ==
    LET i == FirstWithId(ms, meeting_id)
    IN  IF i = 0 THEN StoreOutcome(ms, Ok(PyBool(FALSE), <<>>), 0)
        ELSE LET data == SetItem(SetItem(updated_data, "created_at",
                                         Get(ms[i], "created_at", PyNone)),
                                 "updated_at", isoformat(now + 1))
             IN  StoreOutcome([ms EXCEPT ![i] = data], Ok(PyBool(TRUE), <<>>), 1)

\* del xs[i]
DelItem(xs, i) == SubSeq(xs, 1, i - 1) \o SubSeq(xs, i + 1, Len(xs))

\* delete_meeting(meeting_id)
delete_meeting(ms, meeting_id) ==
    LET i == FirstWithId(ms, meeting_id)
    IN  IF i = 0 THEN StoreOutcome(ms, Ok(PyBool(FALSE), <<>>), 0)
        ELSE StoreOutcome(DelItem(ms, i), Ok(PyBool(TRUE), <<>>), 0)

\* clear_all_meetings()
clear_all_meetings == StoreOutcome(<<>>, Ok(PyNone, <<>>), 0)

DefaultSearchFields == <<"title", "transcript", "notes">>

\* What one field adds to search_text.
FieldText(meeting, field) ==
    IF field \notin DOMAIN meeting THEN <<>>
    ELSE IF meeting[field].type = "str" THEN <<" ">> \o meeting[field].val
    ELSE IF meeting[field].type = "dict" /\ field = "analysis"
    THEN <<" ">> \o Get(meeting[field].val, "summary", <<>>)
         \o <<" ">> \o Join(Get(meeting[field].val, "action_items", <<>>), <<" ">>)
         \o <<" ">> \o Join(Get(meeting[field].val, "key_decisions", <<>>), <<" ">>)
    ELSE <<>>

RECURSIVE SearchText(_, _)
SearchText(meeting, fields) ==
    IF fields = <<>> THEN <<>>
    ELSE FieldText(meeting, Head(fields)) \o SearchText(meeting, Tail(fields))

\* search_meetings(query, fields): fields is None or a list of field names
search_meetings(ms, query, fields) ==
    LET fs == IF fields = PyNone THEN DefaultSearchFields ELSE fields.val
        query_lower == Lower(query)
    IN  PyListOf(SelectSeq(ms, LAMBDA m : Contains(Lower(SearchText(m, fs)), query_lower)))

\* import_data(json_data)
import_data(ms, json_data) ==
    LET data == json_loads(json_data, <<>>)
    IN  IF data.exc # "" THEN StoreOutcome(ms, Raise("ValueError", <<>>), 0)
        ELSE IF data.val.type # "dict" THEN StoreOutcome(ms, Raise("Exception", <<>>), 0)
        ELSE LET imported_meetings == Get(data.val.val, "meetings", <<>>)
                 valid_meetings ==
                     SelectSeq(imported_meetings, LAMBDA m : RequiredFields \subseteq DOMAIN m)
                 existing_ids == {Get(m, "id", PyNone) : m \in Range(ms)}
                 new_meetings ==
                     SelectSeq(valid_meetings, LAMBDA m : Get(m, "id", PyNone) \notin existing_ids)
             IN  StoreOutcome(ms \o new_meetings, Ok(PyInt(Len(new_meetings)), <<>>), 0)

(***************************************************************************)
(* The store's state machine.                                              *)
(***************************************************************************)

\* The most meetings the store holds, and the most readings of the clock.
MaxMeetings == 2

MaxClock == 2

\* "Sync" / "Budget ok" / "" with summary "Plan" and the action item "send it"
ContentA ==
    [title      |-> PyStr(<<"S", "y", "n", "c">>),
     transcript |-> PyStr(<<"B", "u", "d", "g", "e", "t", " ", "o", "k">>),
     notes      |-> PyStr(<<>>),
     analysis   |-> PyDict([summary       |-> <<"P", "l", "a", "n">>,
                            action_items  |-> <<<<"s", "e", "n", "d", " ", "i", "t">>>>,
                            key_decisions |-> <<>>]),
     created_at |-> isoformat(0)]

\* "Retro" / "none", no notes, with summary "Budget cut" and the decision "ship"
ContentB ==
    [title      |-> PyStr(<<"R", "e", "t", "r", "o">>),
     transcript |-> PyStr(<<"n", "o", "n", "e">>),
     analysis   |-> PyDict([summary       |-> <<"B", "u", "d", "g", "e", "t", " ", "c", "u", "t">>,
                            action_items  |-> <<>>,
                            key_decisions |-> <<<<"s", "h", "i", "p">>>>]),
     created_at |-> isoformat(0)]

Meeting(id, content) == SetItem(content, "id", PyStr(id))

\* content without key k
Without(content, k) == [x \in DOMAIN content \ {k} |-> content[x]]

MeetingA1 == Meeting(<<"m", "1">>, ContentA)

MeetingB1 == Meeting(<<"m", "1">>, ContentB)

MeetingB2 == Meeting(<<"m", "2">>, ContentB)

NoAnalysis == Meeting(<<"m", "2">>, Without(ContentA, "analysis"))

\* The dicts handed to save_meeting: two complete ones with the same id, one
\* without an id, one without an analysis, one whose title is None.
MeetingArgs ==
    {MeetingA1, MeetingB1,
     ContentA,
     NoAnalysis,
     SetItem(MeetingB2, "title", PyNone)}

\* The dicts handed to update_meeting: a whole meeting with a created_at of
\* its own, and only the edited field.
UpdateArgs ==
    {SetItem(MeetingB1, "created_at", isoformat(9)),
     [notes |-> PyStr(<<"e", "d", "i", "t", "e", "d">>)]}

\* The ids asked for: each is in the store at some times and not at others.
IdArgs == {PyStr(<<"m", "1">>), PyStr(<<"m", "2">>)}

\* The queries: in a transcript and in a summary, in an action item, in a key
\* decision, across the end of a title and the start of a transcript.
Queries == {<<"b", "u", "d", "g", "e", "t">>, <<"S", "E", "N", "D">>, <<"s", "h", "i", "p">>, <<"c", " ", "b">>}

\* The fields argument: left out, or the title and the analysis.
FieldArgs == {PyNone, PyListOf(<<"title", "analysis">>)}

\* The payloads handed to import_data: text that is not JSON, a JSON array,
\* an object without 'meetings', an object with two meetings of one id, an
\* object with a complete and an incomplete meeting.
ImportPayloads ==
    {[kind |-> "text", obj |-> NoObject],
     [kind |-> "json_list", obj |-> NoObject],
     [kind |-> "json_dict", obj |-> [version |-> StorageVersion]],
     [kind |-> "json_dict", obj |-> [meetings |-> <<MeetingA1, MeetingB1>>]],
     [kind |-> "json_dict", obj |-> [meetings |-> <<MeetingB2, NoAnalysis>>]]}

\* The record of a store call: the call, its arguments and the list before it.
StoreCall(op, args, before, outcome) ==
    Call(op, NoAnswer, outcome) @@ [args |-> args, before |-> before]

\* The store after a call, the clock advanced by the readings the call made.
Stored(op, args, r) ==
    /\ Len(r.meetings) <= MaxMeetings
    /\ clock + r.reads <= MaxClock
    /\ meetings' = r.meetings
    /\ clock' = clock + r.reads
    /\ last' = StoreCall(op, args, meetings, r.out)
    /\ UNCHANGED <<transcript, files, service_vars, env_vars, recorder_vars>>

InitStore ==
    /\ provider = "fallback"
    /\ model_name = _get_default_model("fallback")
    /\ lm_studio_config = DefaultConfig
    /\ openai_client = FALSE
    /\ ollama_available = FALSE
    /\ lm_studio_client = FALSE
    /\ lm_studio_available = FALSE
    /\ ollama_server = [installed |-> FALSE, up |-> FALSE, models |-> <<>>]
    /\ lm_studio_server = [up |-> FALSE, models |-> <<>>]
    /\ transcript = <<>>
    /\ meetings = <<>>
    /\ clock = 0
    /\ files = {}
    /\ AUDIO_AVAILABLE = TRUE
    /\ audio_recorder = NewRecorder
    /\ recording_file = PyNone
    /\ last = StoreCall("_initialize_storage", <<>>, <<>>, Ok(PyNone, <<>>))

SaveMeeting ==
    \E m \in MeetingArgs :
        Stored("save_meeting", [meeting_data |-> m], save_meeting(meetings, m, clock))

GetMeeting ==
    \E id \in IdArgs :
        Stored("get_meeting", [meeting_id |-> id],
               StoreOutcome(meetings, Ok(get_meeting(meetings, id), <<>>), 0))

GetAllMeetings ==
    Stored("get_all_meetings", <<>>,
           StoreOutcome(meetings, Ok(get_all_meetings(meetings), <<>>), 0))

UpdateMeeting ==
    \E id \in IdArgs, data \in UpdateArgs :
        Stored("update_meeting", [meeting_id |-> id, updated_data |-> data],
               update_meeting(meetings, id, data, clock))

DeleteMeeting ==
    \E id \in IdArgs :
        Stored("delete_meeting", [meeting_id |-> id], delete_meeting(meetings, id))

ClearAllMeetings ==
    Stored("clear_all_meetings", <<>>, clear_all_meetings)

SearchMeetings ==
    \E q \in Queries, fields \in FieldArgs :
        /\ fields # PyNone => q = <<"s", "h", "i", "p">>
        /\ Stored("search_meetings", [query |-> q, fields |-> fields],
                  StoreOutcome(meetings, Ok(search_meetings(meetings, q, fields), <<>>), 0))

ImportData ==
    \E p \in ImportPayloads :
        Stored("import_data", [json_data |-> p], import_data(meetings, p))

\* The caller changes the list get_all_meetings just returned: it appends an
\* entry, removes entry i, or sets the notes of entry i. The list is a copy,
\* its entries are the stored dicts.
MutateReturned ==
    /\ last.op = "get_all_meetings"
    /\ \E mutation \in {"append", "remove", "set_field"}, i \in 1..MaxMeetings :
        /\ IF mutation = "append" THEN i = 1 ELSE i <= Len(last.val.val)
        /\ Stored("caller_mutation", [mutation |-> mutation, index |-> i],
                  StoreOutcome(IF mutation = "set_field"
                               THEN [meetings EXCEPT ![i] = SetItem(@, "notes", PyStr(<<"e", "d", "i", "t", "e", "d">>))]
                               ELSE meetings,
                               Ok(PyNone, <<>>), 0))

NextStore ==
    \/ SaveMeeting
    \/ GetMeeting
    \/ GetAllMeetings
    \/ UpdateMeeting
    \/ DeleteMeeting
    \/ ClearAllMeetings
    \/ SearchMeetings
    \/ ImportData
    \/ MutateReturned

SpecStore == InitStore /\ [][NextStore]_vars

(***************************************************************************)
(* The store's writes, one statement at a time.                            *)
(* A write in progress is a frame in last: pc is the line of storage.py    *)
(* about to run, i the index the loop is at, local the dict the call       *)
(* works on (meeting_data, updated_data), seen the latest read made while  *)
(* the frame was open. The session's reads are whole calls.                *)
(***************************************************************************)

NoRead == [read |-> "none", arg |-> PyNone, pc |-> 0, result |-> PyNone]

\* The frame of a write that was just called.
WriteFrame(op, args, local, pc) ==
    [pc |-> pc, i |-> 0, local |-> local, clock_before |-> clock,
     returned |-> FALSE, seen |-> NoRead]
    @@ StoreCall(op, args, meetings, Ok(PyNone, <<>>))

\* The frame after a step, the store after it, the readings of the clock.
Stepped(frame, ms, reads) == [frame |-> frame, meetings |-> ms, reads |-> reads]

\* return v / raise e
Returns(w, out) ==
    [w EXCEPT !.returned = TRUE, !.exc = out.exc, !.val = out.val]

\* One statement of save_meeting.
save_step(w, ms, now) ==
    IF w.pc = 30
    THEN Stepped([w EXCEPT !.pc = IF RequiredFields \subseteq DOMAIN w.local THEN 34 ELSE 43],
                 ms, 0)
    ELSE IF w.pc = 34
    THEN Stepped([w EXCEPT !.pc = 35,
                           !.local = SetItem(w.local, "saved_at", isoformat(now + 1))],
                 ms, 1)
    ELSE IF w.pc = 35
    THEN Stepped([w EXCEPT !.pc = 38,
                           !.local = SetItem(w.local, "version", PyStr(StorageVersion))],
                 ms, 0)
    ELSE IF w.pc = 38
    THEN Stepped([w EXCEPT !.pc = 40], Append(ms, w.local), 0)
    ELSE IF w.pc = 40
    THEN IF "id" \in DOMAIN w.local
         THEN Stepped(Returns(w, Ok(w.local.id, <<>>)), ms, 0)
         ELSE Stepped([w EXCEPT !.pc = 43], ms, 0)
    ELSE Stepped(Returns(w, Raise("Exception", <<>>)), ms, 0)

\* for i, meeting in enumerate(st.session_state.meetings):
\*     if meeting.get('id') == meeting_id:
\* over the list as it is now; found is the line of the loop's body, missed
\* the line after the loop.
LoopStep(w, ms, found, missed) ==
    IF w.i + 1 > Len(ms) THEN [w EXCEPT !.pc = missed]
    ELSE IF Get(ms[w.i + 1], "id", PyNone) = w.args.meeting_id
         THEN [w EXCEPT !.i = w.i + 1, !.pc = found]
    ELSE [w EXCEPT !.i = w.i + 1]

\* update_meeting, had it stamped the dict in the store: created_at is
\* written into the slot before the rest of updated_data. A deviation C25
\* does not survive.
update_step_InTheSlot(w, ms, now) ==
    IF w.pc = 80 THEN Stepped(LoopStep(w, ms, 83, 87), ms, 0)
    ELSE IF w.pc = 83
    THEN Stepped([w EXCEPT !.pc = 84],
                 [ms EXCEPT ![w.i] = SetItem(w.local, "created_at",
                                             Get(ms[w.i], "created_at", PyNone))],
                 0)
    ELSE IF w.pc = 84
    THEN Stepped([w EXCEPT !.pc = 85],
                 [ms EXCEPT ![w.i] = SetItem(@, "updated_at", isoformat(now + 1))], 1)
    ELSE IF w.pc = 85 THEN Stepped([w EXCEPT !.pc = 86], ms, 0)
    ELSE IF w.pc = 86 THEN Stepped(Returns(w, Ok(PyBool(TRUE), <<>>)), ms, 0)
    ELSE Stepped(Returns(w, Ok(PyBool(FALSE), <<>>)), ms, 0)

\* One statement of update_meeting.
update_step(w, ms, now) ==
    IF w.pc = 80 THEN Stepped(LoopStep(w, ms, 83, 87), ms, 0)
    ELSE IF w.pc = 83
    THEN Stepped([w EXCEPT !.pc = 84,
                           !.local = SetItem(w.local, "created_at",
                                             Get(ms[w.i], "created_at", PyNone))],
                 ms, 0)
    ELSE IF w.pc = 84
    THEN Stepped([w EXCEPT !.pc = 85,
                           !.local = SetItem(w.local, "updated_at", isoformat(now + 1))],
                 ms, 1)
    ELSE IF w.pc = 85
    THEN Stepped([w EXCEPT !.pc = 86], [ms EXCEPT ![w.i] = w.local], 0)
    ELSE IF w.pc = 86 THEN Stepped(Returns(w, Ok(PyBool(TRUE), <<>>)), ms, 0)
    ELSE Stepped(Returns(w, Ok(PyBool(FALSE), <<>>)), ms, 0)

\* One statement of delete_meeting.
delete_step(w, ms) ==
    IF w.pc = 99 THEN Stepped(LoopStep(w, ms, 101, 103), ms, 0)
    ELSE IF w.pc = 101 THEN Stepped([w EXCEPT !.pc = 102], DelItem(ms, w.i), 0)
    ELSE IF w.pc = 102 THEN Stepped(Returns(w, Ok(PyBool(TRUE), <<>>)), ms, 0)
    ELSE Stepped(Returns(w, Ok(PyBool(FALSE), <<>>)), ms, 0)

\* A write is in progress.
Writing == "pc" \in DOMAIN last /\ ~last.returned

\* The reads of the session: get_all_meetings(), get_meeting(id) and
\* search_meetings(query).
SessionReads ==
    {[read |-> "get_all_meetings", arg |-> PyNone]}
    \cup {[read |-> "get_meeting", arg |-> id] : id \in IdArgs}
    \cup {[read |-> "search_meetings", arg |-> PyStr(q)] :
            q \in {<<"b", "u", "d", "g", "e", "t">>, <<"s", "h", "i", "p">>}}

\* What the read r returns from the store ms.
ReadResult(r, ms) ==
    IF r.read = "get_all_meetings" THEN get_all_meetings(ms)
    ELSE IF r.read = "get_meeting" THEN get_meeting(ms, r.arg)
    ELSE search_meetings(ms, r.arg.val, PyNone)

SaveMeetingCalled ==
    /\ ~Writing
    /\ Len(meetings) < MaxMeetings
    /\ clock < MaxClock
    /\ \E m \in MeetingArgs :
        last' = WriteFrame("save_meeting", [meeting_data |-> m], m, 30)
    /\ UNCHANGED <<transcript, service_vars, env_vars, app_vars, recorder_vars>>

UpdateMeetingCalled ==
    /\ ~Writing
    /\ clock < MaxClock
    /\ \E id \in IdArgs, data \in UpdateArgs :
        last' = WriteFrame("update_meeting", [meeting_id |-> id, updated_data |-> data],
                           data, 80)
    /\ UNCHANGED <<transcript, service_vars, env_vars, app_vars, recorder_vars>>

DeleteMeetingCalled ==
    /\ ~Writing
    /\ \E id \in IdArgs :
        last' = WriteFrame("delete_meeting", [meeting_id |-> id], <<>>, 99)
    /\ UNCHANGED <<transcript, service_vars, env_vars, app_vars, recorder_vars>>

\* The write in progress runs its next statement.
WriteStep ==
    /\ Writing
    /\ \E s \in {IF last.op = "save_meeting" THEN save_step(last, meetings, clock)
                 ELSE IF last.op = "update_meeting" THEN update_step(last, meetings, clock)
                 ELSE delete_step(last, meetings)} :
        /\ meetings' = s.meetings
        /\ clock' = clock + s.reads
        /\ last' = s.frame
    /\ UNCHANGED <<transcript, files, service_vars, env_vars, recorder_vars>>

\* A read between two statements of the write in progress.
ReadDuringWrite ==
    /\ Writing
    /\ \E r \in SessionReads :
        last' = [last EXCEPT !.seen = r @@ [pc |-> last.pc, result |-> ReadResult(r, meetings)]]
    /\ UNCHANGED <<transcript, service_vars, env_vars, app_vars, recorder_vars>>

NextWrites ==
    \/ SaveMeetingCalled
    \/ UpdateMeetingCalled
    \/ DeleteMeetingCalled
    \/ WriteStep
    \/ ReadDuringWrite

SpecWrites == InitStore /\ [][NextWrites]_vars

(***************************************************************************)
(* The upload pipeline: process_meeting of src/app.py, with                *)
(* AudioProcessor.process_audio and TranscriptionService.transcribe.       *)
(* A path is text; the disk is the set of the temporary files' paths.      *)
(***************************************************************************)

\* str.upper() of one character (ASCII letters).
UpperChar(c) ==
    CASE c = "a" -> "A" [] c = "b" -> "B" [] c = "c" -> "C" [] c = "d" -> "D"
      [] c = "e" -> "E" [] c = "f" -> "F" [] c = "g" -> "G" [] c = "h" -> "H"
      [] c = "i" -> "I" [] c = "j" -> "J" [] c = "k" -> "K" [] c = "l" -> "L"
      [] c = "m" -> "M" [] c = "n" -> "N" [] c = "o" -> "O" [] c = "p" -> "P"
      [] c = "q" -> "Q" [] c = "r" -> "R" [] c = "s" -> "S" [] c = "t" -> "T"
      [] c = "u" -> "U" [] c = "v" -> "V" [] c = "w" -> "W" [] c = "x" -> "X"
      [] c = "y" -> "Y" [] c = "z" -> "Z"
      [] OTHER -> c

\* s.replace(old, new), old not empty
RECURSIVE Replace(_, _, _)
Replace(s, old, new) ==
    IF Len(s) < Len(old) THEN s
    ELSE IF SubSeq(s, 1, Len(old)) = old
    THEN new \o Replace(SubSeq(s, Len(old) + 1, Len(s)), old, new)
    ELSE <<Head(s)>> \o Replace(Tail(s), old, new)

\* s.endswith(suffix)
EndsWith(s, suffix) ==
    Len(s) >= Len(suffix) /\ SubSeq(s, Len(s) - Len(suffix) + 1, Len(s)) = suffix

\* s.split('.')[-1]
Extension(s) == LET parts == Split(s, ".") IN parts[Len(parts)]

\* re.sub(r'\s+', ' ', s)
RECURSIVE CollapseSpaces(_)
CollapseSpaces(s) ==
    IF s = <<>> THEN <<>>
    ELSE IF IsSpace(Head(s)) THEN <<" ">> \o CollapseSpaces(LStrip(s))
    ELSE <<Head(s)>> \o CollapseSpaces(Tail(s))

\* s.split(sep) for a separator of any length
RECURSIVE SplitOnText(_, _, _, _)
SplitOnText(s, sep, done, cur) ==
    IF s = <<>> THEN Append(done, cur)
    ELSE IF Len(s) >= Len(sep) /\ SubSeq(s, 1, Len(sep)) = sep
    THEN SplitOnText(SubSeq(s, Len(sep) + 1, Len(s)), sep, Append(done, cur), <<>>)
    ELSE SplitOnText(Tail(s), sep, done, Append(cur, Head(s)))

\* The sentences _clean_transcript keeps: stripped, not empty, the first
\* character in upper case.
RECURSIVE CleanedSentences(_)
CleanedSentences(sentences) ==
    IF sentences = <<>> THEN <<>>
    ELSE LET sentence == Strip(Head(sentences))
         IN  (IF sentence # <<>>
              THEN <<(<<UpperChar(Head(sentence))>> \o Tail(sentence))>>
              ELSE <<>>)
             \o CleanedSentences(Tail(sentences))

\* TranscriptionService._clean_transcript(text)
_clean_transcript(text) ==
    IF text = <<>> THEN <<>>
    ELSE LET spaced == CollapseSpaces(Strip(text))
             fixed == Replace(Replace(Replace(Replace(spaced, <<" ", ".">>, <<".">>), <<" ", ",">>, <<",">>),
                                      <<" ", "?">>, <<"?">>), <<" ", "!">>, <<"!">>)
             joined == Join(CleanedSentences(SplitOnText(fixed, <<".", " ">>, <<>>, <<>>)), <<".", " ">>)
         IN  IF joined # <<>> /\ joined[Len(joined)] \notin {".", "!", "?"}
             THEN Append(joined, ".")
             ELSE joined

\* transcript_text after the loop over the segments
RECURSIVE SegmentsText(_)
SegmentsText(segments) ==
    IF segments = <<>> THEN <<>>
    ELSE Strip(Head(segments)) \o <<" ">> \o SegmentsText(Tail(segments))

\* TranscriptionService.transcribe(audio_path): whisper says whether the model
\* was initialized, whether model.transcribe raises, and the segments' texts.
transcribe(whisper) ==
    IF ~whisper.model THEN Raise("Exception", <<>>)
    ELSE IF whisper.raises THEN Raise("Exception", <<>>)
    ELSE LET transcript_text == _clean_transcript(Strip(SegmentsText(whisper.segments)))
         IN  IF transcript_text = <<>> THEN Raise("Exception", <<>>)
             ELSE Ok(PyStr(transcript_text), <<>>)

\* What a step does to the disk, and what it returned or raised.
DiskOutcome(fs, out) == [files |-> fs, out |-> out]

\* duration_ms / (1000 * 60)
MsPerMinute == 1000 * 60

\* A float, as the quotient of two integers.
PyFloat(num, den) == [type |-> "float", val |-> [num |-> num, den |-> den]]

\* AudioProcessor.process_audio(file_path) on disk fs; audio is what
\* AudioSegment.from_file finds: whether the file decodes, and its length
\* len(audio) in milliseconds.
process_audio(fs, file_path, audio) ==
    IF ~audio.decodes THEN DiskOutcome(fs, Raise("Exception", <<>>))
    ELSE IF EndsWith(Lower(file_path), <<".", "w", "a", "v">>)
    THEN DiskOutcome(fs, Ok(PyDict([duration |-> PyFloat(audio.ms, MsPerMinute),
                                    processed_path |-> PyStr(file_path)]), <<>>))
    ELSE LET wav_path == Replace(file_path, Extension(file_path), <<"w", "a", "v">>)
             exported == fs \cup {wav_path}
             renamed == (exported \ {wav_path}) \cup {file_path \o <<".", "w", "a", "v">>}
         IN  DiskOutcome(renamed, Ok(PyDict([duration |-> PyFloat(audio.ms, MsPerMinute),
                                            processed_path |-> PyStr(file_path \o <<".", "w", "a", "v">>)]),
                                     <<>>))

\* self.supported_formats
supported_formats ==
    {<<"w", "a", "v">>, <<"m", "p", "3">>, <<"m", "p", "4">>, <<"m", "4", "a">>,
     <<"f", "l", "a", "c">>, <<"o", "g", "g">>}

\* The minimum duration of validate_audio_file, in milliseconds.
MinimumDurationMs == 1000

\* AudioProcessor.validate_audio_file(file_path), audio being what
\* AudioSegment.from_file finds.
validate_audio_file(file_path, audio) ==
    IF Lower(Extension(file_path)) \notin supported_formats THEN PyBool(FALSE)
    ELSE IF ~audio.decodes THEN PyBool(FALSE)
    ELSE IF audio.ms = 0 THEN PyBool(FALSE)
    ELSE IF audio.ms < MinimumDurationMs THEN PyBool(FALSE)
    ELSE PyBool(TRUE)

\* The files handed to the audio processor: names with and without a
\* supported extension; audio that does not decode, of no length, of half a
\* second, of one second and of two.
AudioFiles ==
    {[name |-> n, audio |-> a] :
        n \in {<<"a", ".", "w", "a", "v">>, <<"b", ".", "m", "p", "3">>, <<"c", ".", "a", "a", "c">>},
        a \in {[decodes |-> FALSE, ms |-> 0], [decodes |-> TRUE, ms |-> 0],
               [decodes |-> TRUE, ms |-> 500], [decodes |-> TRUE, ms |-> 1000],
               [decodes |-> TRUE, ms |-> 2000]}}

\* The record of a call of the audio processor.
AudioCall(op, f, out) ==
    Call(op, NoAnswer, out) @@ [args |-> f, files_before |-> files]

\* services['audio'].process_audio(path) of a file put on disk
ProcessAudio ==
    \E f \in AudioFiles :
        \E r \in {process_audio(files \cup {f.name}, f.name, f.audio)} :
            /\ files' = r.files
            /\ last' = AudioCall("process_audio", f, r.out)
            /\ UNCHANGED <<transcript, meetings, clock, service_vars, env_vars, recorder_vars>>

\* validate_audio_file(path) of a file put on disk
ValidateAudioFile ==
    \E f \in AudioFiles :
        /\ files' = files \cup {f.name}
        /\ last' = AudioCall("validate_audio_file", f, Ok(validate_audio_file(f.name, f.audio), <<>>))
        /\ UNCHANGED <<transcript, meetings, clock, service_vars, env_vars, recorder_vars>>

NextAudio ==
    \/ ProcessAudio
    \/ ValidateAudioFile

SpecAudio == InitStore /\ [][NextAudio]_vars

\* The name tempfile.NamedTemporaryFile(suffix=...) gives its k-th candidate.
TempName(k, suffix) == <<"t", "m", "p">> \o Str(k) \o suffix

\* The limit the code puts on a request to a backend, in seconds: only the
\* LM Studio client is built with one.
LMStudioTimeout == 10

request_timeout(backend) ==
    IF backend = "lm_studio" THEN PyInt(LMStudioTimeout) ELSE PyNone

\* What the code sees of a backend that never responds: the client gives up
\* and raises, or the call waits for ever.
TimedOut == [kind |-> "raise", obj |-> NoObject]

Silent == [kind |-> "silent", obj |-> NoObject]

\* The client gives up a request that has a limit: the one the code sets, or
\* the one every OpenAI(...) client has when the code sets none. ollama.chat
\* goes through the ollama module's own client, built without a limit.
ClientGivesUp(backend) ==
    request_timeout(backend) # PyNone \/ backend = "openai"

Unanswered(backend) ==
    IF ClientGivesUp(backend) THEN {TimedOut} ELSE {TimedOut, Silent}

\* The transcripts of the calls whose backend never responds.
UnansweredTranscripts == {<<>>, <<"o", "k", ".">>}

\* analyze_meeting is in a request to a backend that never responds.
InFlight == "returned" \in DOMAIN last /\ ~last.returned

\* analyze_meeting(transcript) is called and sends its request; the backend
\* accepts it and never responds.
AnalyzeMeetingCalled ==
    /\ ~InFlight
    /\ Dispatch # "fallback"
    /\ \E t \in UnansweredTranscripts :
        /\ transcript' = t
        /\ last' = Call("analyze_meeting", Silent, Ok(PyNone, <<Request(Dispatch, "chat", model_name)>>))
                   @@ [returned |-> FALSE]
    /\ UNCHANGED <<service_vars, env_vars, app_vars, recorder_vars>>

\* The client gives the request up and raises; analyze_meeting returns.
RequestGivenUp ==
    /\ InFlight
    /\ ClientGivesUp(Dispatch)
    /\ \E listing \in {l \in ListingOutcomes : l.exc # ""} :
        \E r \in {analyze_meeting(transcript, listing, TimedOut)} :
            last' = Call("analyze_meeting", TimedOut, r) @@ [returned |-> TRUE]
    /\ UNCHANGED <<transcript, service_vars, env_vars, app_vars, recorder_vars>>

NextUnanswered ==
    \/ AnalyzeMeetingCalled
    \/ RequestGivenUp

\* A client with a limit does give up: the step that returns is not put off
\* for ever.
SpecUnanswered == Init /\ [][NextUnanswered]_vars /\ WF_vars(RequestGivenUp)

\* How a run of the pipeline ends: the disk, the store, the readings of the
\* clock it made, the transcript it had analysed, the exit it took, and the
\* services it had called, in the order of the calls.
PipelineOutcome(fs, ms, reads, t, exit, steps) ==
    [files |-> fs, meetings |-> ms, reads |-> reads, transcript |-> t, exit |-> exit,
     steps |-> steps]

\* process_meeting, had it kept a record of the upload when the transcription
\* fails.
process_meeting_SavesPartial(uploaded_file, title, notes, k, whisper, listing, out) ==
    LET temp_path == TempName(k, <<".">> \o Extension(uploaded_file.name))
        audio_info == process_audio(files \cup {temp_path}, temp_path, uploaded_file.audio)
        unlinked == audio_info.files \ {temp_path}
    IN  IF audio_info.out.exc # ""
        THEN PipelineOutcome(unlinked, meetings, 0, <<>>, "audio_failure", <<"process_audio">>)
        ELSE LET heard == transcribe(whisper)
                 partial == [id         |-> isoformat(clock + 1),
                             title      |-> PyStr(title),
                             transcript |-> PyStr(<<>>),
                             analysis   |-> PyNone]
             IN  IF heard.exc # ""
                 THEN PipelineOutcome(unlinked, save_meeting(meetings, partial, clock + 1).meetings, 2,
                                      <<>>, "transcription_failure", <<"process_audio", "transcribe">>)
                 ELSE LET analysis == analyze_meeting(heard.val.val, listing, out)
                          meeting_data ==
                              [id         |-> isoformat(clock + 1),
                               title      |-> PyStr(title),
                               notes      |-> PyStr(notes),
                               duration   |-> audio_info.out.val.val.duration,
                               transcript |-> heard.val,
                               analysis   |-> analysis.val,
                               created_at |-> isoformat(clock + 2)]
                          saved == save_meeting(meetings, meeting_data, clock + 2)
                      IN  PipelineOutcome(unlinked, saved.meetings, 2 + saved.reads, heard.val.val,
                                          "success",
                                          <<"process_audio", "transcribe", "analyze_meeting", "save_meeting">>)

\* process_meeting(uploaded_file, title, date, notes), the temporary file
\* getting name k; out and listing are what the analysis backend answers.
process_meeting(uploaded_file, title, notes, k, whisper, listing, out) ==
    LET temp_path == TempName(k, <<".">> \o Extension(uploaded_file.name))
        audio_info == process_audio(files \cup {temp_path}, temp_path, uploaded_file.audio)
        unlinked == audio_info.files \ {temp_path}
    IN  IF audio_info.out.exc # ""
        THEN PipelineOutcome(unlinked, meetings, 0, <<>>, "audio_failure", <<"process_audio">>)
        ELSE LET heard == transcribe(whisper)
             IN  IF heard.exc # ""
                 THEN PipelineOutcome(unlinked, meetings, 0, <<>>, "transcription_failure",
                                      <<"process_audio", "transcribe">>)
                 ELSE IF heard.val.val = <<>> \/ Strip(heard.val.val) = <<>>
                 THEN PipelineOutcome(audio_info.files, meetings, 0, <<>>, "empty_transcript",
                                      <<"process_audio", "transcribe">>)
                 ELSE IF out = Silent
                 THEN PipelineOutcome(audio_info.files, meetings, 0, heard.val.val,
                                      "analysis_unanswered",
                                      <<"process_audio", "transcribe", "analyze_meeting">>)
                 ELSE LET analysis == analyze_meeting(heard.val.val, listing, out)
                          meeting_data ==
                              [id         |-> isoformat(clock + 1),
                               title      |-> PyStr(title),
                               notes      |-> PyStr(notes),
                               duration   |-> audio_info.out.val.val.duration,
                               transcript |-> heard.val,
                               analysis   |-> analysis.val,
                               created_at |-> isoformat(clock + 2)]
                          saved == save_meeting(meetings, meeting_data, clock + 2)
                      IN  IF analysis.exc # ""
                          THEN PipelineOutcome(unlinked, meetings, 0, heard.val.val, "analysis_failure",
                                               <<"process_audio", "transcribe", "analyze_meeting">>)
                          ELSE IF saved.out.exc # ""
                          THEN PipelineOutcome(unlinked, saved.meetings, 2 + saved.reads,
                                               heard.val.val, "save_failure",
                                               <<"process_audio", "transcribe", "analyze_meeting",
                                                 "save_meeting">>)
                          ELSE PipelineOutcome(unlinked, saved.meetings, 2 + saved.reads,
                                               heard.val.val, "success",
                                               <<"process_audio", "transcribe", "analyze_meeting",
                                                 "save_meeting">>)

\* The most candidate names for a temporary file.
MaxTempFiles == 1

\* The uploads: a WAV file of half a second, an MP3 file of two seconds, and
\* an MP3 file of zero bytes.
Uploads ==
    {[name |-> <<"t", "a", "l", "k", ".", "w", "a", "v">>, audio |-> [decodes |-> TRUE, ms |-> 500]],
     [name |-> <<"t", "a", "l", "k", ".", "m", "p", "3">>, audio |-> [decodes |-> TRUE, ms |-> 2000]],
     [name |-> <<"e", "m", "p", "t", "y", ".", "m", "p", "3">>, audio |-> [decodes |-> FALSE, ms |-> 0]]}

\* What the transcription model does: it was never loaded, it fails, it finds
\* no speech, it finds only blanks, it finds two segments of speech.
WhisperOutcomes ==
    {[model |-> FALSE, raises |-> FALSE, segments |-> <<>>],
     [model |-> TRUE, raises |-> TRUE, segments |-> <<>>],
     [model |-> TRUE, raises |-> FALSE, segments |-> <<>>],
     [model |-> TRUE, raises |-> FALSE, segments |-> <<<<" ">>>>],
     [model |-> TRUE, raises |-> FALSE,
      segments |-> <<<<" ", "w", "e", " ", " ", "a", "g", "r", "e", "e", "d", " ", ".">>, <<"t", "o", "d", "o">>>>]}

(***************************************************************************)
(* The microphone recorder: AudioRecorder of src/utils/audio_recorder.py,  *)
(* and the buttons of microphone_recording_section of src/app.py.          *)
(***************************************************************************)

\* What a call of the recorder leaves: the recorder, the disk, and what the
\* call returned.
RecorderOutcome(r, fs, out) == [recorder |-> r, files |-> fs, out |-> out]

\* AudioRecorder.start_recording(device_id) on disk fs; sd says what sounddevice does:
\* the stream opens and starts, InputStream(...) raises, or stream.start()
\* raises.
start_recording(r, available, fs, sd) ==
    IF ~available THEN RecorderOutcome(r, fs, Ok(PyBool(FALSE), <<>>))
    ELSE IF r.recording THEN RecorderOutcome(r, fs, Ok(PyBool(FALSE), <<>>))
    ELSE LET begun == [r EXCEPT !.audio_data = 0, !.recording = TRUE]
         IN  IF sd = "InputStream_raises"
             THEN RecorderOutcome([begun EXCEPT !.recording = FALSE], fs, Ok(PyBool(FALSE), <<>>))
             ELSE IF sd = "start_raises"
             THEN RecorderOutcome([begun EXCEPT !.stream = "opened", !.recording = FALSE], fs,
                                  Ok(PyBool(FALSE), <<>>))
             ELSE RecorderOutcome([begun EXCEPT !.stream = "started"], fs, Ok(PyBool(TRUE), <<>>))

\* audio_callback(indata, frames, time, status), which the stream calls with
\* each chunk while it is started.
audio_callback(r) ==
    IF r.recording THEN [r EXCEPT !.audio_data = @ + 1] ELSE r

\* AudioRecorder.stop_recording() on disk fs; pa says what stopping and
\* closing the stream does, io what writing the k-th candidate temporary file
\* does.
stop_recording(r, available, fs, pa, io, k) ==
    IF ~r.recording THEN RecorderOutcome(r, fs, Ok(PyNone, <<>>))
    ELSE LET halted == [r EXCEPT !.recording = FALSE]
             closed == IF r.stream = "None" THEN halted
                       ELSE IF pa = "stop_raises" THEN halted
                       ELSE IF pa = "close_raises" THEN [halted EXCEPT !.stream = "stopped"]
                       ELSE [halted EXCEPT !.stream = "None"]
             temp_file == TempName(k, <<".", "w", "a", "v">>)
         IN  IF r.stream # "None" /\ pa # "ok" THEN RecorderOutcome(closed, fs, Ok(PyNone, <<>>))
             ELSE IF r.audio_data = 0 THEN RecorderOutcome(closed, fs, Ok(PyNone, <<>>))
             ELSE IF ~available THEN RecorderOutcome(closed, fs, Ok(PyNone, <<>>))
             ELSE IF io = "tempfile_raises" THEN RecorderOutcome(closed, fs, Ok(PyNone, <<>>))
             ELSE IF io = "wave_raises"
             THEN RecorderOutcome([closed EXCEPT !.temp_file = PyStr(temp_file)],
                                  fs \cup {temp_file}, Ok(PyNone, <<>>))
             ELSE RecorderOutcome([closed EXCEPT !.temp_file = PyStr(temp_file)],
                                  fs \cup {temp_file}, Ok(PyStr(temp_file), <<>>))

\* AudioRecorder.cleanup() on disk fs; unlink says whether os.unlink raises.
cleanup(r, fs, unlink) ==
    IF r.temp_file # PyNone /\ r.temp_file.val \in fs
    THEN IF unlink = "raises" THEN RecorderOutcome(r, fs, Ok(PyNone, <<>>))
         ELSE RecorderOutcome([r EXCEPT !.temp_file = PyNone], fs \ {r.temp_file.val},
                              Ok(PyNone, <<>>))
    ELSE RecorderOutcome(r, fs, Ok(PyNone, <<>>))

\* The most chunks of audio a recording holds.
MaxChunks == 2

\* The most candidate names for a recording's temporary file.
MaxRecordedFiles == 2

\* What sounddevice does when a stream is opened and started, and when it is
\* stopped and closed.
StreamStarts == {"ok", "InputStream_raises", "start_raises"}

StreamStops == {"ok", "stop_raises", "close_raises"}

\* What writing the WAV file does.
WaveWrites == {"ok", "tempfile_raises", "wave_raises"}

\* What os.unlink does.
Unlinks == {"ok", "raises"}

\* The record of a call of the recorder: the recorder, the disk and the
\* session's recording before it.
RecorderCall(op, args, out) ==
    Call(op, NoAnswer, out)
    @@ [args |-> args, recorder_before |-> audio_recorder, files_before |-> files,
        recording_file_before |-> recording_file]

\* A new session: the libraries were imported or not, the recorder is new.
InitRecorder ==
    /\ AUDIO_AVAILABLE \in BOOLEAN
    /\ audio_recorder = NewRecorder
    /\ recording_file = PyNone
    /\ files = {}
    /\ provider = "fallback"
    /\ model_name = _get_default_model("fallback")
    /\ lm_studio_config = DefaultConfig
    /\ openai_client = FALSE
    /\ ollama_available = FALSE
    /\ lm_studio_client = FALSE
    /\ lm_studio_available = FALSE
    /\ ollama_server = [installed |-> FALSE, up |-> FALSE, models |-> <<>>]
    /\ lm_studio_server = [up |-> FALSE, models |-> <<>>]
    /\ transcript = <<>>
    /\ meetings = <<>>
    /\ clock = 0
    /\ last = RecorderCall("__init__", <<>>, Ok(PyNone, <<>>))

\* recorder.start_recording(selected_device['index']), the recorder in any state
StartRecording ==
    \E sd \in StreamStarts :
        \E r \in {start_recording(audio_recorder, AUDIO_AVAILABLE, files, sd)} :
            /\ audio_recorder' = r.recorder
            /\ last' = RecorderCall("start_recording", [sd |-> sd], r.out)
            /\ UNCHANGED <<AUDIO_AVAILABLE, recording_file, transcript, app_vars, service_vars, env_vars>>

\* The started stream delivers a chunk of audio.
AudioCallback ==
    /\ audio_recorder.stream = "started"
    /\ audio_recorder.audio_data < MaxChunks
    /\ audio_recorder' = audio_callback(audio_recorder)
    /\ last' = RecorderCall("audio_callback", <<>>, Ok(PyNone, <<>>))
    /\ UNCHANGED <<AUDIO_AVAILABLE, recording_file, transcript, app_vars, service_vars, env_vars>>

\* audio_file = recorder.stop_recording(), the recorder in any state, and the
\* session keeping the file when there is one.
StopRecording ==
    \E pa \in StreamStops, io \in WaveWrites, k \in 1..MaxRecordedFiles :
        \E r \in {stop_recording(audio_recorder, AUDIO_AVAILABLE, files, pa, io, k)} :
            /\ TempName(k, <<".", "w", "a", "v">>) \notin files
            /\ audio_recorder' = r.recorder
            /\ files' = r.files
            /\ recording_file' = (IF r.out.val # PyNone THEN r.out.val ELSE recording_file)
            /\ last' = RecorderCall("stop_recording", [pa |-> pa, io |-> io, k |-> k], r.out)
            /\ UNCHANGED <<AUDIO_AVAILABLE, transcript, meetings, clock, service_vars, env_vars>>

\* recorder.cleanup(), the recorder in any state
Cleanup ==
    \E unlink \in Unlinks :
        \E r \in {cleanup(audio_recorder, files, unlink)} :
            /\ audio_recorder' = r.recorder
            /\ files' = r.files
            /\ last' = RecorderCall("cleanup", [unlink |-> unlink], r.out)
            /\ UNCHANGED <<AUDIO_AVAILABLE, recording_file, transcript, meetings, clock,
                           service_vars, env_vars>>

\* The button "Discard Recording", shown when the session has a recording and
\* the recorder is not recording.
DiscardRecording ==
    /\ recording_file # PyNone
    /\ ~audio_recorder.recording
    /\ \E unlink \in Unlinks :
        \E r \in {cleanup(audio_recorder, files, unlink)} :
            /\ audio_recorder' = r.recorder
            /\ files' = r.files
            /\ recording_file' = PyNone
            /\ last' = RecorderCall("discard_recording", [unlink |-> unlink], r.out)
            /\ UNCHANGED <<AUDIO_AVAILABLE, transcript, meetings, clock, service_vars, env_vars>>

NextRecorder ==
    \/ StartRecording
    \/ AudioCallback
    \/ StopRecording
    \/ Cleanup
    \/ DiscardRecording

SpecRecorder == InitRecorder /\ [][NextRecorder]_vars

(***************************************************************************)
(* The sessions of the pipeline.                                           *)
(***************************************************************************)

\* process_recorded_audio(audio_file_path, title, date, notes) with recorder
\* r; out and listing are what the analysis backend answers, unlink what
\* os.unlink does in the recorder's cleanup.
process_recorded_audio(audio_file_path, title, notes, r, whisper, listing, out, unlink) ==
    LET audio_info == process_audio(files, audio_file_path.val,
                                    [decodes |-> audio_file_path.val \in files, ms |-> 2000])
        cleaned == cleanup(r, audio_info.files, unlink)
        Ends(fs, rec, rf, ms, reads, t, exit, steps) ==
            PipelineOutcome(fs, ms, reads, t, exit, steps)
            @@ [recorder |-> rec, recording_file |-> rf]
    IN  IF audio_info.out.exc # ""
        THEN Ends(cleaned.files, cleaned.recorder, audio_file_path, meetings, 0, <<>>,
                  "audio_failure", <<"process_audio">>)
        ELSE LET heard == transcribe(whisper)
             IN  IF heard.exc # ""
                 THEN Ends(cleaned.files, cleaned.recorder, audio_file_path, meetings, 0, <<>>,
                           "transcription_failure", <<"process_audio", "transcribe">>)
                 ELSE IF heard.val.val = <<>> \/ Strip(heard.val.val) = <<>>
                 THEN Ends(audio_info.files, r, audio_file_path, meetings, 0, <<>>,
                           "empty_transcript", <<"process_audio", "transcribe">>)
                 ELSE IF out = Silent
                 THEN Ends(audio_info.files, r, audio_file_path, meetings, 0, heard.val.val,
                           "analysis_unanswered",
                           <<"process_audio", "transcribe", "analyze_meeting">>)
                 ELSE LET analysis == analyze_meeting(heard.val.val, listing, out)
                          meeting_data ==
                              [id         |-> isoformat(clock + 1),
                               title      |-> PyStr(title),
                               notes      |-> PyStr(notes),
                               duration   |-> audio_info.out.val.val.duration,
                               transcript |-> heard.val,
                               analysis   |-> analysis.val,
                               created_at |-> isoformat(clock + 2),
                               source     |-> PyStr(<<"l", "i", "v", "e", "_", "r", "e", "c", "o", "r", "d", "i", "n", "g">>)]
                          saved == save_meeting(meetings, meeting_data, clock + 2)
                      IN  IF analysis.exc # ""
                          THEN Ends(cleaned.files, cleaned.recorder, audio_file_path, meetings, 0,
                                    heard.val.val, "analysis_failure",
                                    <<"process_audio", "transcribe", "analyze_meeting">>)
                          ELSE IF saved.out.exc # ""
                          THEN Ends(cleaned.files, cleaned.recorder, audio_file_path, saved.meetings,
                                    2 + saved.reads, heard.val.val, "save_failure",
                                    <<"process_audio", "transcribe", "analyze_meeting", "save_meeting">>)
                          ELSE Ends(cleaned.files, cleaned.recorder, PyNone, saved.meetings,
                                    2 + saved.reads, heard.val.val, "success",
                                    <<"process_audio", "transcribe", "analyze_meeting", "save_meeting">>)

\* The recording a session can hold when the pipeline starts: the recorder
\* has recorded and stopped, and its file waits to be processed.
RecordedPath == TempName(1, <<".", "w", "a", "v">>)

HeldRecorder == [NewRecorder EXCEPT !.audio_data = 1, !.temp_file = PyStr(RecordedPath)]

\* The service of the session: the keyword fallback, the cloud backend with
\* a key, or Ollama with its daemon up.
InitPipeline ==
    /\ provider \in {"fallback", "openai", "ollama"}
    /\ model_name = _get_default_model(provider)
    /\ lm_studio_config = DefaultConfig
    /\ openai_client = (provider = "openai")
    /\ ollama_available = (provider = "ollama")
    /\ lm_studio_client = FALSE
    /\ lm_studio_available = FALSE
    /\ ollama_server = [installed |-> provider = "ollama", up |-> provider = "ollama", models |-> <<>>]
    /\ lm_studio_server = [up |-> FALSE, models |-> <<>>]
    /\ transcript = <<>>
    /\ meetings = <<>>
    /\ clock = 0
    /\ AUDIO_AVAILABLE = TRUE
    /\ \/ /\ audio_recorder = NewRecorder
          /\ recording_file = PyNone
          /\ files = {}
       \/ /\ audio_recorder = HeldRecorder
          /\ recording_file = PyStr(RecordedPath)
          /\ files = {RecordedPath}
    /\ last = StoreCall("_initialize_storage", <<>>, <<>>, Ok(PyNone, <<>>))

\* The transcription model is asked only about audio that was decoded, and
\* the analysis backend only about a transcript.
WhisperAsked(uploaded_file) ==
    IF uploaded_file.audio.decodes THEN WhisperOutcomes
    ELSE {[model |-> TRUE, raises |-> FALSE, segments |-> <<>>]}

\* The backend's answers to a run: none, an error, text without an object, a
\* list, the complete object.
PipelineAnswers ==
    {o \in PossibleOutcomes : \/ o.kind \in {"none", "raise", "text", "json_list"}
                              \/ o = [kind |-> "json_dict", obj |-> CompleteObject]}

BackendAsked(decodes, whisper) ==
    IF decodes /\ transcribe(whisper).exc = ""
    THEN PipelineAnswers \cup (IF Dispatch = "fallback" THEN {} ELSE Unanswered(Dispatch))
    ELSE {NoAnswer}

\* The session's script is in a call that never returns.
SessionWaits == "exit" \in DOMAIN last /\ last.exit = "analysis_unanswered"

\* The user uploads a file, names the meeting and presses "Process Meeting".
ProcessMeeting ==
    /\ ~SessionWaits
    /\ \E uploaded_file \in Uploads, k \in 1..MaxTempFiles :
        \E whisper \in WhisperAsked(uploaded_file) :
            \E out \in BackendAsked(uploaded_file.audio.decodes, whisper) :
                \E run \in {process_meeting(uploaded_file, <<"S", "y", "n", "c">>, <<>>, k, whisper,
                                             lm_studio_models_list, out)} :
                    /\ TempName(k, <<".">> \o Extension(uploaded_file.name)) \notin files
                    /\ Len(run.meetings) <= MaxMeetings
                    /\ files' = run.files
                    /\ meetings' = run.meetings
                    /\ clock' = clock + run.reads
                    /\ transcript' = run.transcript
                    /\ last' = Call("process_meeting", out, Ok(PyNone, <<>>))
                               @@ [args |-> [uploaded_file |-> uploaded_file, k |-> k,
                                             whisper |-> whisper],
                                   before |-> meetings, files_before |-> files,
                                   exit |-> run.exit, steps |-> run.steps]
                    /\ UNCHANGED <<service_vars, env_vars, recorder_vars>>

\* The button "Transcribe & Analyze", shown when the session has a recording
\* and the recorder is not recording.
ProcessRecordedAudio ==
    /\ ~SessionWaits
    /\ recording_file # PyNone
    /\ ~audio_recorder.recording
    /\ \E whisper \in (IF recording_file.val \in files THEN WhisperOutcomes
                       ELSE {[model |-> TRUE, raises |-> FALSE, segments |-> <<>>]}),
          unlink \in Unlinks :
        \E out \in BackendAsked(recording_file.val \in files, whisper) :
            \E run \in {process_recorded_audio(recording_file, <<"S", "y", "n", "c">>, <<>>,
                                               audio_recorder, whisper, lm_studio_models_list,
                                               out, unlink)} :
                /\ Len(run.meetings) <= MaxMeetings
                /\ files' = run.files
                /\ meetings' = run.meetings
                /\ clock' = clock + run.reads
                /\ transcript' = run.transcript
                /\ audio_recorder' = run.recorder
                /\ recording_file' = run.recording_file
                /\ last' = Call("process_recorded_audio", out, Ok(PyNone, <<>>))
                           @@ [args |-> [audio_file_path |-> recording_file, whisper |-> whisper,
                                         unlink |-> unlink],
                               before |-> meetings, files_before |-> files,
                               exit |-> run.exit, steps |-> run.steps]
                /\ UNCHANGED <<AUDIO_AVAILABLE, service_vars, env_vars>>

NextPipeline ==
    \/ ProcessMeeting
    \/ ProcessRecordedAudio

SpecPipeline == InitPipeline /\ [][NextPipeline]_vars

(***************************************************************************)
(* Properties.                                                             *)
(***************************************************************************)

Analyzed == last.op = "analyze_meeting"

Listing == last.op = "get_available_providers"

FallbackRan == last.op = "_fallback_analysis"

\* The dict the last call returned.
Result == last.val.val

\* The last call made a request to backend b.
Contacted(b) == \E i \in 1..Len(last.calls) : last.calls[i].backend = b

\* The last listing has a descriptor of provider v.
Listed(v) == \E i \in 1..Len(last.val) : last.val[i].value = v

AnalysisResultFields ==
    {"summary", "action_items", "key_decisions", "topics_discussed", "participants",
     "next_steps", "ai_confidence", "provider"}

\* The labels that name a backend.
BackendLabels ==
    {"OpenAI"} \cup {"Local " \o m : m \in ModelNames}
               \cup {"LM Studio (" \o m \o ")" : m \in ModelNames}

\* C1: for every transcript and every provider id, whatever the selected
\* backend answers (an exception, empty content, text that is not JSON, JSON
\* that is not an object), analyze_meeting returns a dict and raises nothing.
C1_NeverRaises == Analyzed => (last.exc = "" /\ last.val.type = "dict")

\* A backend was contacted and answered with a JSON array: .get raised
\* AttributeError inside _analyze_with_*, and the call still returned.
C1_Witness ==
    /\ Analyzed
    /\ last.calls # <<>>
    /\ last.answer.kind = "json_list"
    /\ last.exc = ""

\* The selected backend was contacted and its request raised, or its content
\* could not be parsed.
BackendFailed ==
    /\ Analyzed
    /\ last.calls # <<>>
    /\ \/ last.answer.kind \in {"raise", "text", "braces"}
       \/ (Contacted("openai") /\ last.answer.kind = "prose_dict")

\* C2: when the selected backend's call raises or returns unparseable content,
\* the result is the fallback's for the same transcript (summary, action items,
\* key decisions, confidence 0.3) and its label does not name the backend.
C2_FailureGivesFallback ==
    BackendFailed =>
        LET f == _fallback_analysis(transcript)
        IN  /\ Result.summary = f.summary
            /\ Result.action_items = f.action_items
            /\ Result.key_decisions = f.key_decisions
            /\ Result.ai_confidence = 30
            /\ ~("provider" \in DOMAIN Result /\ Result.provider \in BackendLabels)

\* C3: every result analyze_meeting returns, on every route, has all the
\* fields of an analysis result, the provider label included.
C3_AllFieldsPresent ==
    (Analyzed /\ last.exc = "") => AnalysisResultFields \subseteq DOMAIN Result

\* C4: the confidence of every result analyze_meeting returns is in [0, 1],
\* whatever confidence the backend's object carries.
C4_ConfidenceInUnitInterval ==
    (Analyzed /\ last.exc = "") => (Result.ai_confidence >= 0 /\ Result.ai_confidence <= 100)

\* C5: analyze_meeting contacts the cloud backend only with provider openai
\* and a cloud client, Ollama only with provider ollama and its flag set,
\* LM Studio only with provider lm_studio and its flag set; in every other
\* case it contacts no backend and returns the fallback's analysis.
C5_DispatchTable ==
    Analyzed =>
        /\ Contacted("openai") => (provider = "openai" /\ openai_client)
        /\ Contacted("ollama") => (provider = "ollama" /\ ollama_available)
        /\ Contacted("lm_studio") => (provider = "lm_studio" /\ lm_studio_available)
        /\ (/\ ~(provider = "openai" /\ openai_client)
            /\ ~(provider = "ollama" /\ ollama_available)
            /\ ~(provider = "lm_studio" /\ lm_studio_available))
           => (last.calls = <<>> /\ last.exc = ""
               /\ Result = _fallback_analysis(transcript))

\* Ollama is selected and unavailable while the cloud client exists: no
\* request was made and the fallback answered.
C5_Witness ==
    /\ Analyzed
    /\ transcript = LaunchTranscript
    /\ provider = "ollama" /\ ~ollama_available /\ openai_client
    /\ last.calls = <<>>
    /\ Result = _fallback_analysis(transcript)

\* C6: the label of a result a local backend produced names the model the
\* request was made with, also when LM Studio substituted its first loaded
\* model for the configured one.
C6_LabelNamesModelUsed ==
    (Analyzed /\ last.exc = "" /\ last.answer.kind \in {"json_dict", "prose_dict"}) =>
        \A i \in 1..Len(last.calls) :
            /\ (last.calls[i].backend = "lm_studio"
                /\ last.calls[i].api = "chat.completions.create")
               => Result.provider = "LM Studio (" \o last.calls[i].model \o ")"
            /\ (last.calls[i].backend = "ollama" /\ last.calls[i].api = "chat")
               => Result.provider = "Local " \o last.calls[i].model

\* C7: get_available_providers returns a non-empty list in every state of
\* credentials and servers, and a list naming no cloud or local backend has
\* the fallback descriptor.
C7_ListingNeverEmpty ==
    Listing =>
        /\ Len(last.val) >= 1
        /\ (~Listed("openai") /\ ~Listed("ollama") /\ ~Listed("lm_studio"))
           => \E i \in 1..Len(last.val) : last.val[i] = FallbackDescriptor

\* Ollama was reachable at construction and fails at listing time, nothing
\* else is available: the listing is the fallback descriptor alone.
C7_Witness ==
    /\ Listing
    /\ ollama_available /\ ~ollama_server.up
    /\ ~openai_client /\ ~lm_studio_available
    /\ last.val = <<FallbackDescriptor>>

\* The server of local backend b answers and has at least one model loaded.
HasModels(b) ==
    IF b = "ollama" THEN ollama_server.up /\ ollama_server.models # <<>>
    ELSE lm_studio_server.up /\ lm_studio_server.models # <<>>

\* C8: a local backend is available only if its probe succeeds and the server
\* reports at least one model; a reachable server with no model is not
\* available, not listed and not dispatched to.
C8_AvailableOnlyWithModels ==
    /\ last.op = "__init__" =>
           /\ ollama_available => HasModels("ollama")
           /\ lm_studio_available => HasModels("lm_studio")
    /\ Listing =>
           /\ Listed("ollama") => HasModels("ollama")
           /\ Listed("lm_studio") => HasModels("lm_studio")
    /\ Analyzed =>
           /\ Contacted("ollama") => HasModels("ollama")
           /\ Contacted("lm_studio") => HasModels("lm_studio")

\* C9: the availability a listing reports is the availability at the time of
\* the call: a local backend is listed exactly when its probe would succeed
\* now.
C9_ListingIsCurrent ==
    Listing =>
        /\ Listed("ollama") <=> _check_ollama_availability
        /\ Listed("lm_studio") <=> _check_lm_studio_availability(lm_studio_client, model_name)

\* Keyword k occurs in the sentence at position i, letter case ignored.
OccursAt(sentence, k, i) ==
    /\ i + Len(k) - 1 <= Len(sentence)
    /\ \A j \in 1..Len(k) : LowerChar(sentence[i + j - 1]) = k[j]

\* The indices of the sentences that mention a keyword of K.
Mentioning(sentences, K) ==
    {n \in 1..Len(sentences) :
        \E k \in K : \E i \in 1..Len(sentences[n]) : OccursAt(sentences[n], k, i)}

\* The number of members of M before n.
Rank(M, n) == Cardinality({m \in M : m < n})

\* items is the first five, in document order, of the sentences whose indices
\* are in M, each without the whitespace around it.
IsFirstFive(items, sentences, M) ==
    /\ Len(items) = (IF Cardinality(M) < 5 THEN Cardinality(M) ELSE 5)
    /\ \A n \in M : Rank(M, n) < 5 => items[Rank(M, n) + 1] = Strip(sentences[n])

\* C10: the fallback's action items are exactly the first 5, in document
\* order, of the sentences that contain (letter case ignored) one of todo,
\* action, task, will do, should, need to, follow up; its key decisions are
\* the first 5 of those that contain one of decided, agreed, conclusion,
\* resolved, determined; topics, participants and next steps are empty and
\* the confidence is 0.3. A sentence is a piece between periods, reported
\* without the whitespace around it.
C10_FallbackKeywordLists ==
    FallbackRan =>
        LET sentences == Split(transcript, ".")
            actions == Mentioning(sentences, SpecActionKeywords)
            decisions == Mentioning(sentences, SpecDecisionKeywords)
        IN  /\ IsFirstFive(Result.action_items, sentences, actions)
            /\ IsFirstFive(Result.key_decisions, sentences, decisions)
            /\ Result.topics_discussed = <<>>
            /\ Result.participants = <<>>
            /\ Result.next_steps = <<>>
            /\ Result.ai_confidence = 30

\* More than five sentences mention an action keyword, some but fewer than
\* five a decision keyword: five action items are kept.
C10_Witness ==
    /\ FallbackRan
    /\ Cardinality(Mentioning(Split(transcript, "."), SpecActionKeywords)) > 5
    /\ Len(Result.action_items) = 5
    /\ Len(Result.key_decisions) \in 1..4

\* "We decided to launch Friday" and "John will send the report"
LaunchFirstSentence == SubSeq(LaunchTranscript, 1, 27)

LaunchSecondSentence == SubSeq(LaunchTranscript, 30, 54)

\* Some item of the list has the sentence in it.
HasItemWith(items, sentence) == \E i \in 1..Len(items) : Contains(items[i], sentence)

\* C11: with no backend available, analysing "We decided to launch Friday.
\* John will send the report." returns key decisions that contain the first
\* sentence, action items that contain the second sentence, and confidence
\* 0.3.
C11_LaunchScenario ==
    (/\ Analyzed
     /\ transcript = LaunchTranscript
     /\ ~openai_client /\ ~ollama_available /\ ~lm_studio_available)
    => /\ last.exc = ""
       /\ HasItemWith(Result.key_decisions, LaunchFirstSentence)
       /\ HasItemWith(Result.action_items, LaunchSecondSentence)
       /\ Result.ai_confidence = 30

\* The last call was store operation op.
StoreOp(op) == last.op = op

\* Meeting m has key k with a value that is not None.
HasValue(m, k) == k \in DOMAIN m /\ m[k].type # "none"

\* C12: after any sequence of save, update, delete, import and clear, every
\* meeting in the store has title, transcript and analysis, none of them None.
C12_RequiredFieldsPresent ==
    \A i \in 1..Len(meetings) : \A k \in RequiredFields : HasValue(meetings[i], k)

\* C13: after any sequence of store operations no two meetings in the store
\* have the same id.
C13_UniqueIds ==
    \A i, j \in 1..Len(meetings) :
        (i # j /\ "id" \in DOMAIN meetings[i] /\ "id" \in DOMAIN meetings[j])
        => meetings[i].id # meetings[j].id

\* m has every key of d, with d's value.
Extends(m, d) == \A k \in DOMAIN d : k \in DOMAIN m /\ m[k] = d[k]

\* C14: save_meeting of a meeting that lacks title, transcript or analysis
\* raises and leaves the store as it was; save_meeting of a meeting that has
\* all three appends it and returns its id.
C14_SaveValidates ==
    StoreOp("save_meeting") =>
        LET m == last.args.meeting_data
        IN  IF ~(RequiredFields \subseteq DOMAIN m)
            THEN last.exc # "" /\ meetings = last.before
            ELSE /\ last.exc = ""
                 /\ Len(meetings) = Len(last.before) + 1
                 /\ SubSeq(meetings, 1, Len(last.before)) = last.before
                 /\ Extends(meetings[Len(meetings)], m)
                 /\ "id" \in DOMAIN m
                 /\ last.val = m.id

\* The index in the store before the last call of the record the call's
\* meeting_id names, 0 if there is none.
Target == FirstWithId(last.before, last.args.meeting_id)

\* C15: update_meeting(id, data) for an id in the store keeps the record's
\* created_at, stamps updated_at with the time of the call, returns True and
\* changes no other record; for an id that is not in the store it returns
\* False and leaves the store as it was.
C15_UpdateKeepsCreatedAt ==
    StoreOp("update_meeting") =>
        IF Target # 0
        THEN /\ last.exc = "" /\ last.val = PyBool(TRUE)
             /\ Len(meetings) = Len(last.before)
             /\ Get(meetings[Target], "created_at", PyNone)
                    = Get(last.before[Target], "created_at", PyNone)
             /\ Get(meetings[Target], "updated_at", PyNone) = isoformat(clock)
             /\ \A j \in 1..Len(meetings) : j # Target => meetings[j] = last.before[j]
        ELSE /\ last.exc = "" /\ last.val = PyBool(FALSE)
             /\ meetings = last.before

\* A record saved with created_at 0 was updated with data whose created_at is
\* 9, next to another record: it still has created_at 0.
C15_Witness ==
    /\ StoreOp("update_meeting")
    /\ Target # 0
    /\ Len(meetings) = 2
    /\ Get(last.before[Target], "created_at", PyNone) = isoformat(0)
    /\ Get(last.args.updated_data, "created_at", PyNone) = isoformat(9)
    /\ Get(meetings[Target], "created_at", PyNone) = isoformat(0)
    /\ Get(meetings[Target], "updated_at", PyNone) = isoformat(clock)

\* C16: nothing the caller does to the list get_all_meetings returned
\* (appending or removing an entry, setting a field of an entry) changes the
\* store, so get_meeting, get_all_meetings and search_meetings return what
\* they returned before.
C16_DefensiveCopy ==
    StoreOp("caller_mutation") =>
        /\ meetings = last.before
        /\ get_all_meetings(meetings) = get_all_meetings(last.before)
        /\ \A id \in IdArgs : get_meeting(meetings, id) = get_meeting(last.before, id)
        /\ \A q \in Queries :
               search_meetings(meetings, q, PyNone) = search_meetings(last.before, q, PyNone)

\* C17: after save_meeting(m) returned, get_meeting(m.id) returns a meeting
\* equal to m (which save_meeting stamped with saved_at and version).
C17_SaveThenGet ==
    (StoreOp("save_meeting") /\ last.exc = "") =>
        LET m == last.args.meeting_data
            got == get_meeting(meetings, m.id)
        IN  /\ got.type = "dict"
            /\ got.val = SetItem(SetItem(m, "saved_at", isoformat(clock)),
                                 "version", PyStr(StorageVersion))

\* C18: after delete_meeting(id) returned True, get_meeting(id) returns None;
\* delete_meeting of an id that is not stored returns False and leaves the
\* store as it was.
C18_DeleteThenGet ==
    StoreOp("delete_meeting") =>
        /\ last.exc = ""
        /\ last.val = PyBool(TRUE) => get_meeting(meetings, last.args.meeting_id) = PyNone
        /\ Target = 0 => (last.val = PyBool(FALSE) /\ meetings = last.before)

\* The texts the specification searches: title, transcript and notes when
\* they are strings, the analysis summary, each action item, each decision.
SearchableTexts(m) ==
    {m[k].val : k \in {k \in {"title", "transcript", "notes"} : k \in DOMAIN m /\ m[k].type = "str"}}
    \cup (IF "analysis" \in DOMAIN m /\ m.analysis.type = "dict"
          THEN {Get(m.analysis.val, "summary", <<>>)}
               \cup Range(Get(m.analysis.val, "action_items", <<>>))
               \cup Range(Get(m.analysis.val, "key_decisions", <<>>))
          ELSE {})

\* query is a substring of one of m's searchable texts, letter case ignored.
Matches(m, query) == \E text \in SearchableTexts(m) : Contains(Lower(text), Lower(query))

\* C19: search_meetings(query) with the default fields returns exactly the
\* stored meetings, in store order, of which the title, the transcript, the
\* notes, the analysis summary, an action item or a key decision has the
\* query as a substring, letter case ignored.
C19_SearchDefaultFields ==
    (StoreOp("search_meetings") /\ last.args.fields = PyNone) =>
        last.val = PyListOf(SelectSeq(meetings, LAMBDA m : Matches(m, last.args.query)))

\* C20: every temporary file a run of the pipeline created (the saved copy of
\* the upload, the converted WAV copy) is gone when the run ends, on every
\* exit path: the disk holds no file it did not hold before the run.
C20_TempFilesRemoved ==
    (StoreOp("process_meeting") /\ last.exit # "analysis_unanswered") =>
        files \subseteq last.files_before

\* The last call was a run of the pipeline, of an upload or of a recording.
PipelineRun == last.op \in {"process_meeting", "process_recorded_audio"}

\* The audio of the last run could be read and decoded.
AudioRead ==
    IF last.op = "process_meeting" THEN last.args.uploaded_file.audio.decodes
    ELSE last.args.audio_file_path.val \in last.files_before

\* Every service of the pipeline, in the order of a complete run.
CompleteRun == <<"process_audio", "transcribe", "analyze_meeting", "save_meeting">>

\* C21: a run whose audio processing or transcription fails, or whose
\* transcript is empty, leaves the store as it was; the store changes only by
\* one meeting appended after audio processing, transcription, analysis and
\* save were called in that order, and the meeting holds that transcription
\* and the analysis of it.
C21_NoPartialMeeting ==
    PipelineRun =>
        LET heard == transcribe(last.args.whisper)
            failed == ~AudioRead \/ heard.exc # "" \/ Strip(heard.val.val) = <<>>
        IN  /\ failed => meetings = last.before
            /\ meetings # last.before =>
                  /\ ~failed
                  /\ last.steps = CompleteRun
                  /\ Len(meetings) = Len(last.before) + 1
                  /\ SubSeq(meetings, 1, Len(last.before)) = last.before
                  /\ meetings[Len(meetings)].transcript = heard.val
                  /\ meetings[Len(meetings)].analysis
                         = analyze_meeting(heard.val.val, lm_studio_models_list, last.answer).val

\* A run of the pipeline failed at the transcription with a meeting in the store.
C21_Witness ==
    /\ PipelineRun
    /\ AudioRead
    /\ transcribe(last.args.whisper).exc # ""
    /\ last.before # <<>>

\* The last run's audio was read and its transcription gave a transcript.
Transcribed ==
    /\ PipelineRun
    /\ AudioRead
    /\ transcribe(last.args.whisper).exc = ""
    /\ Strip(transcribe(last.args.whisper).val.val) # <<>>

\* C22: a run whose audio processing and transcription succeeded with a
\* transcript reaches save_meeting, whatever the analysis backend answered: it
\* ends with one more meeting, whose analysis is a dict with a summary, action
\* items and key decisions.
C22_BackendNeverAborts ==
    Transcribed =>
        /\ last.exit = "success"
        /\ last.steps = CompleteRun
        /\ Len(meetings) = Len(last.before) + 1
        /\ LET analysis == meetings[Len(meetings)].analysis
           IN  /\ analysis.type = "dict"
               /\ {"summary", "action_items", "key_decisions"} \subseteq DOMAIN analysis.val

\* C23: process_audio raises, returning no metadata, for every file that does
\* not decode, has no length or is shorter than the minimum of one second;
\* for a file with a supported extension it succeeds exactly when
\* validate_audio_file says the file is valid.
C23_ShortAudioRejected ==
    last.op = "process_audio" =>
        LET f == last.args
            too_short == ~f.audio.decodes \/ f.audio.ms = 0 \/ f.audio.ms < MinimumDurationMs
        IN  /\ too_short => (last.exc # "" /\ last.val = PyNone)
            /\ Lower(Extension(f.name)) \in supported_formats =>
                  ((last.exc = "") <=> (validate_audio_file(f.name, f.audio) = PyBool(TRUE)))

\* C24: every request to an analysis backend has a limit of time: when the
\* backend never responds, analyze_meeting eventually returns, and what it
\* returns is the fallback analysis of the transcript.
C24_UnansweredCallReturns ==
    InFlight ~> (/\ "returned" \in DOMAIN last
                 /\ last.returned
                 /\ last.exc = ""
                 /\ last.val = PyDict(_fallback_analysis(transcript)))

\* The store a write leaves when it runs with nothing in between.
WholeWrite(w) ==
    IF w.op = "save_meeting"
    THEN save_meeting(w.before, w.args.meeting_data, w.clock_before)
    ELSE IF w.op = "update_meeting"
    THEN update_meeting(w.before, w.args.meeting_id, w.args.updated_data, w.clock_before)
    ELSE delete_meeting(w.before, w.args.meeting_id)

\* C25: save, update and delete are atomic with respect to the reads of the
\* session. At every statement of a write the store is the store before the
\* call or the store the whole call leaves; a get_all_meetings, get_meeting
\* or search_meetings made in between returns what it returns from one of
\* the two; the call ends with the store and the outcome of the whole call.
C25_WritesAtomic ==
    "pc" \in DOMAIN last =>
        LET whole == WholeWrite(last)
        IN  /\ meetings \in {last.before, whole.meetings}
            /\ last.seen # NoRead =>
                  last.seen.result \in {ReadResult(last.seen, last.before),
                                        ReadResult(last.seen, whole.meetings)}
            /\ last.returned =>
                  /\ meetings = whole.meetings
                  /\ last.exc = whole.out.exc
                  /\ last.val = whole.out.val

\* A read made while a write that has changed the store is still running,
\* and that returns something else than it did before the call.
C25_Witness ==
    /\ Writing
    /\ last.seen # NoRead
    /\ last.seen.pc = last.pc
    /\ meetings # last.before
    /\ last.seen.result # ReadResult(last.seen, last.before)

\* C26: the id of a stored meeting is never reassigned. After
\* update_meeting(id, data) of a record in the store, the record is still in
\* the store, at its place, under the id it was saved with, and
\* get_meeting(id) returns it.
C26_IdNeverReassigned ==
    (StoreOp("update_meeting") /\ Target # 0) =>
        /\ Len(meetings) = Len(last.before)
        /\ Get(meetings[Target], "id", PyNone) = last.args.meeting_id
        /\ get_meeting(meetings, last.args.meeting_id) = PyDict(meetings[Target])

\* C27: save_meeting is all-or-nothing. Whenever it raises, a meeting with
\* title, transcript and analysis but no id included, the list of stored
\* meetings is the same as before the call.
C27_SaveAllOrNothing ==
    (StoreOp("save_meeting") /\ last.exc # "") => meetings = last.before

\* C28: import_data never duplicates meetings. When it raises the store is as
\* it was. When it returns, the meetings stored before are unchanged and in
\* place, no meeting it added has the id of a meeting before it in the store,
\* it returned the number of meetings it added, and importing the same
\* payload again returns 0 and leaves the store unchanged.
C28_ImportNeverDuplicates ==
    StoreOp("import_data") =>
        IF last.exc # "" THEN meetings = last.before
        ELSE LET again == import_data(meetings, last.args.json_data)
             IN  /\ Len(meetings) >= Len(last.before)
                 /\ SubSeq(meetings, 1, Len(last.before)) = last.before
                 /\ \A i \in (Len(last.before) + 1)..Len(meetings) :
                        \A j \in 1..(i - 1) :
                            Get(meetings[j], "id", PyNone) # Get(meetings[i], "id", PyNone)
                 /\ last.val = PyInt(Len(meetings) - Len(last.before))
                 /\ again.out = Ok(PyInt(0), <<>>)
                 /\ again.meetings = meetings

\* The last call was the recorder's op.
RecorderOp(op) == last.op = op /\ "recorder_before" \in DOMAIN last

\* C29: AudioRecorder keeps its recording flag and its input stream
\* consistent. In every reachable state a stream is held only while recording
\* is true; start_recording while recording returns False and changes
\* nothing; a start_recording that fails from the idle state leaves the
\* recorder idle with no stream; stop_recording while not recording returns
\* None and changes nothing; after stop_recording the recorder is idle with
\* no stream.
C29_FlagAndStreamConsistent ==
    /\ audio_recorder.stream # "None" => audio_recorder.recording
    /\ RecorderOp("start_recording") =>
          /\ last.recorder_before.recording =>
                (last.val = PyBool(FALSE) /\ audio_recorder = last.recorder_before)
          /\ (~last.recorder_before.recording /\ last.val = PyBool(FALSE)) =>
                (~audio_recorder.recording /\ audio_recorder.stream = "None")
    /\ RecorderOp("stop_recording") =>
          /\ ~last.recorder_before.recording =>
                (last.val = PyNone /\ audio_recorder = last.recorder_before
                 /\ files = last.files_before)
          /\ ~audio_recorder.recording
          /\ audio_recorder.stream = "None"

\* The last call was recorder.cleanup(), from the button or not, and
\* os.unlink did not raise in it.
CleanedUp == (RecorderOp("cleanup") \/ RecorderOp("discard_recording")) /\ last.args.unlink = "ok"

\* C30: no temporary WAV file written by stop_recording is leaked. After any
\* sequence of start_recording, stop_recording and cleanup that ends with a
\* cleanup in which os.unlink did not fail, no file the recorder created
\* remains.
C30_NoRecordingLeaked ==
    CleanedUp => files = {}

====
